---------------------------- MODULE Spec2Model ----------------------------
(***************************************************************************)
(* UAV flight data analysis platform: the trajectory metrics engine        *)
(* (models/TrajectoryAnalyzer.js, models/UAVDataProcessor.js) and the      *)
(* cross-flight analytics helpers of routes/analysis.js.                   *)
(*                                                                         *)
(* JavaScript numbers are modelled as exact reals of the form              *)
(*     (n + m * sqrt(r)) / d      n, m integers, d > 0, r square-free      *)
(* together with NaN, +Infinity, -Infinity and undefined, so that          *)
(* Math.sqrt, division by zero and comparisons with NaN behave as in the   *)
(* language.  This is the arithmetic of the real numbers; the statistics   *)
(* helpers are modelled a second time in IEEE 754 binary64 arithmetic,     *)
(* where the rounding of every operation is part of the result.            *)
(***************************************************************************)
EXTENDS Integers, Sequences, FiniteSets, TLC

VARIABLES positions, sequence, values, x, y, dataPoints, comparisons, flights, result,
          FlightData, AnalysisReport, mockUsers, mockFlights, uploads,
          req, pc, response, analyses, emitted, User, registrations

\* the state of the web layer: the FlightData and AnalysisReport collections,
\* the in-memory admin collections, the files in uploads/, the request being
\* handled with the position of its handler and its response, the analyses
\* started on the socket and the events emitted on it, the User collection
\* and the register requests being handled
webVars ==
    <<FlightData, AnalysisReport, mockUsers, mockFlights, uploads,
      req, pc, response, analyses, emitted, User, registrations>>

vars == <<positions, sequence, values, x, y, dataPoints, comparisons, flights, result, webVars>>

(***************************************************************************)
(* Bounds of the model.                                                    *)
(***************************************************************************)
MaxSamples == 3
MaxWaypoints == 3
MaxValues == 4
MaxCorrLen == 3
MaxNetSamples == 2
MaxPoints == 4
MaxFlights == 3
MaxDoubles == 3
MaxBulkFlights == 10
MaxBulkPoor == 21
MaxUploadPoints == 2
MaxCorrDoubles == 2

(***************************************************************************)
(* Integer helpers.                                                        *)
(***************************************************************************)
Abs(i) == IF i < 0 THEN -i ELSE i

RECURSIVE GCD(_, _)
GCD(a, b) == IF b = 0 THEN a ELSE GCD(b, a % b)

RECURSIVE ISqrtIn(_, _, _)
ISqrtIn(k, lo, hi) ==
    IF lo = hi THEN lo
    ELSE LET mid == (lo + hi + 1) \div 2
         IN  IF mid * mid <= k THEN ISqrtIn(k, mid, hi) ELSE ISqrtIn(k, lo, mid - 1)

ISqrt(k) == ISqrtIn(k, 0, IF k < 46340 THEN k ELSE 46340)

\* the largest s with s*s dividing k (k >= 1)
SquarePart(k) ==
    LET S == {s \in 1..ISqrt(k) : k % (s * s) = 0}
    IN  CHOOSE s \in S : \A t \in S : t <= s

(***************************************************************************)
(* JavaScript values: numbers and undefined.                               *)
(***************************************************************************)
Special(kind) == [k |-> kind, n |-> 0, m |-> 0, r |-> 1, d |-> 1]

NaN == Special("nan")
PInf == Special("pinf")
NInf == Special("ninf")
Undefined == Special("undef")

\* (n + m*sqrt(r)) / d in lowest terms
Mk(n, m, r, d) ==
    LET nn == IF r = 1 THEN n + m ELSE n
        mm == IF r = 1 THEN 0 ELSE m
        g  == GCD(GCD(Abs(nn), Abs(mm)), d)
    IN  [k |-> "fin", n |-> nn \div g, m |-> mm \div g,
         r |-> IF mm = 0 THEN 1 ELSE r, d |-> d \div g]

Rat(n, d) == Mk(n, 0, 1, d)
Num(n) == Mk(n, 0, 1, 1)
Zero == Num(0)

\* ToNumber: undefined becomes NaN in arithmetic
ToNumber(v) == IF v.k = "undef" THEN NaN ELSE v

\* sign of a finite number: -1, 0 or 1
Sign(v) ==
    IF v.n >= 0 /\ v.m >= 0 THEN (IF v.n = 0 /\ v.m = 0 THEN 0 ELSE 1)
    ELSE IF v.n <= 0 /\ v.m <= 0 THEN -1
    ELSE IF v.n > 0 THEN (IF v.n * v.n > v.m * v.m * v.r THEN 1 ELSE -1)
    ELSE (IF v.m * v.m * v.r > v.n * v.n THEN 1 ELSE -1)

\* two finite operands must lie in the same field Q(sqrt r); a sum of two
\* different surds has no representation and stops the evaluation
CommonRad(a, b) ==
    IF a.m = 0 THEN b.r
    ELSE IF b.m = 0 THEN a.r
    ELSE CHOOSE r \in {a.r} \cap {b.r} : TRUE

Neg(v0) ==
    LET v == ToNumber(v0)
    IN  CASE v.k = "nan" -> NaN
          [] v.k = "pinf" -> NInf
          [] v.k = "ninf" -> PInf
          [] OTHER -> Mk(-v.n, -v.m, v.r, v.d)

Add(a0, b0) ==
    LET a == ToNumber(a0)
        b == ToNumber(b0)
    IN  IF a.k = "nan" \/ b.k = "nan" THEN NaN
        ELSE IF a.k = "pinf" THEN (IF b.k = "ninf" THEN NaN ELSE PInf)
        ELSE IF a.k = "ninf" THEN (IF b.k = "pinf" THEN NaN ELSE NInf)
        ELSE IF b.k # "fin" THEN b
        ELSE LET g == GCD(a.d, b.d)
                 fa == b.d \div g
                 fb == a.d \div g
             IN  Mk(a.n * fa + b.n * fb, a.m * fa + b.m * fb, CommonRad(a, b), a.d * fa)

Sub(a, b) == Add(a, Neg(b))

Mul(a0, b0) ==
    LET a == ToNumber(a0)
        b == ToNumber(b0)
    IN  IF a.k = "nan" \/ b.k = "nan" THEN NaN
        ELSE IF a.k # "fin" \/ b.k # "fin" THEN
            LET sa == IF a.k = "pinf" THEN 1 ELSE IF a.k = "ninf" THEN -1 ELSE Sign(a)
                sb == IF b.k = "pinf" THEN 1 ELSE IF b.k = "ninf" THEN -1 ELSE Sign(b)
            IN  IF sa * sb = 0 THEN NaN ELSE IF sa * sb > 0 THEN PInf ELSE NInf
        ELSE LET r == CommonRad(a, b)
             IN  Mk(a.n * b.n + a.m * b.m * r, a.n * b.m + a.m * b.n, r, a.d * b.d)

Div(a0, b0) ==
    LET a == ToNumber(a0)
        b == ToNumber(b0)
    IN  IF a.k = "nan" \/ b.k = "nan" THEN NaN
        ELSE IF a.k # "fin" THEN
            (IF b.k # "fin" THEN NaN
             ELSE IF (a.k = "pinf") = (Sign(b) >= 0) THEN PInf ELSE NInf)
        ELSE IF b.k # "fin" THEN Zero
        ELSE IF Sign(b) = 0 THEN
            (IF Sign(a) = 0 THEN NaN ELSE IF Sign(a) > 0 THEN PInf ELSE NInf)
        ELSE LET r == CommonRad(a, b)
                 q == b.n * b.n - b.m * b.m * r
                 s == IF q < 0 THEN -1 ELSE 1
             IN  Mk(s * b.d * (a.n * b.n - a.m * b.m * r),
                    s * b.d * (a.m * b.n - a.n * b.m), r, a.d * Abs(q))

\* a < b
Lt(a0, b0) ==
    LET a == ToNumber(a0)
        b == ToNumber(b0)
    IN  IF a.k = "nan" \/ b.k = "nan" THEN FALSE
        ELSE IF a.k = "pinf" \/ b.k = "ninf" THEN FALSE
        ELSE IF a.k = "ninf" \/ b.k = "pinf" THEN TRUE
        ELSE Sign(Sub(a, b)) < 0

Gt(a, b) == Lt(b, a)

\* a <= b
Le(a0, b0) ==
    LET a == ToNumber(a0)
        b == ToNumber(b0)
    IN  a.k # "nan" /\ b.k # "nan" /\ ~Lt(b, a)

Ge(a, b) == Le(b, a)

\* a === b
StrictEq(a, b) == a.k # "nan" /\ b.k # "nan" /\ a = b

\* truthiness of a value: undefined, NaN and 0 are falsy
Truthy(v) == v.k \notin {"undef", "nan"} /\ ~(v.k = "fin" /\ Sign(v) = 0)

\* a || b
OrElse(a, b) == IF Truthy(a) THEN a ELSE b

IsFinite(v) == v.k = "fin"

MathMax(a0, b0) ==
    LET a == ToNumber(a0)
        b == ToNumber(b0)
    IN  IF a.k = "nan" \/ b.k = "nan" THEN NaN ELSE IF Lt(a, b) THEN b ELSE a

MathMin(a0, b0) ==
    LET a == ToNumber(a0)
        b == ToNumber(b0)
    IN  IF a.k = "nan" \/ b.k = "nan" THEN NaN ELSE IF Lt(b, a) THEN b ELSE a

\* Math.sqrt of a rational: sqrt(n/d) = sn * sqrt(tn*td) / (sd*td)
MathSqrt(v0) ==
    LET v == ToNumber(v0)
    IN  IF v.k = "nan" \/ v.k = "ninf" THEN NaN
        ELSE IF v.k = "pinf" THEN PInf
        ELSE IF Sign(v) < 0 THEN NaN
        ELSE IF Sign(v) = 0 THEN Zero
        ELSE LET n  == CHOOSE i \in {v.n} : v.m = 0
                 sn == SquarePart(n)
                 sd == SquarePart(v.d)
                 tn == n \div (sn * sn)
                 td == v.d \div (sd * sd)
             IN  Mk(0, sn, tn * td, sd * td)

\* Math.pow(v, 2)
MathPow2(v) == Mul(v, v)

RECURSIVE Pow10(_)
Pow10(f) == IF f = 0 THEN 1 ELSE 10 * Pow10(f - 1)

\* Math.floor of a finite number: floor((n + m*sqrt(r)) / d)
FloorInt(v) ==
    LET root == ISqrt(v.m * v.m * v.r)
        fm == IF v.m >= 0 THEN root ELSE IF root * root = v.m * v.m * v.r THEN -root ELSE -root - 1
    IN  (v.n + fm) \div v.d

\* the decimal printed by v.toFixed(f): v rounded to f digits, ties away from 0
ToFixed(v0, f) ==
    LET v == ToNumber(v0)
    IN  IF v.k # "fin" THEN v
        ELSE LET a == IF Sign(v) < 0 THEN Neg(v) ELSE v
                 units == FloorInt(Add(Mul(a, Num(Pow10(f))), Rat(1, 2)))
             IN  Rat((IF Sign(v) < 0 THEN -1 ELSE 1) * units, Pow10(f))

\* a string made of a printed number and a unit, e.g. "12.5%"
Text(v, unit) == [text |-> v, suffix |-> unit]

\* parseFloat of such a string: the printed number
ParseFloat(str) == str.text

(***************************************************************************)
(* Array helpers.                                                          *)
(***************************************************************************)
\* arr.filter(p)
Filter(arr, p(_)) == SelectSeq(arr, p)

\* arr.reduce((sum, val) => sum + val, 0); the additions are exact and hence
\* associative, so the sum is formed over the two halves of the array
RECURSIVE SumOf(_)
SumOf(arr) ==
    IF arr = <<>> THEN Zero
    ELSE IF Len(arr) = 1 THEN Add(Zero, arr[1])
    ELSE LET h == Len(arr) \div 2
         IN  Add(SumOf(SubSeq(arr, 1, h)), SumOf(SubSeq(arr, h + 1, Len(arr))))

\* Math.min(...arr) and Math.max(...arr)
RECURSIVE MinOf(_)
MinOf(arr) ==
    IF arr = <<>> THEN PInf
    ELSE MathMin(MinOf(SubSeq(arr, 1, Len(arr) - 1)), arr[Len(arr)])

RECURSIVE MaxOf(_)
MaxOf(arr) ==
    IF arr = <<>> THEN NInf
    ELSE MathMax(MaxOf(SubSeq(arr, 1, Len(arr) - 1)), arr[Len(arr)])

\* all sequences over S of length 0..n
SeqUpTo(S, n) == UNION {[1..l -> S] : l \in 0..n}


\* Array.prototype.sort((a, b) => a - b): stable insertion into ascending order
RECURSIVE Insert(_, _)
Insert(sorted, v) ==
    IF sorted = <<>> THEN <<v>>
    ELSE IF Lt(v, sorted[1]) THEN <<v>> \o sorted
    ELSE <<sorted[1]>> \o Insert(Tail(sorted), v)

RECURSIVE SortNumeric(_)
SortNumeric(arr) ==
    IF arr = <<>> THEN <<>>
    ELSE Insert(SortNumeric(SubSeq(arr, 1, Len(arr) - 1)), arr[Len(arr)])

\* String(i) of a non-negative integer, as its sequence of decimal digits
RECURSIVE Digits(_)
Digits(i) == IF i < 10 THEN <<i>> ELSE Append(Digits(i \div 10), i % 10)

\* a < b on strings of digits (code-unit order)
RECURSIVE StrLt(_, _)
StrLt(a, b) ==
    IF a = <<>> THEN b # <<>>
    ELSE IF b = <<>> THEN FALSE
    ELSE IF a[1] # b[1] THEN a[1] < b[1]
    ELSE StrLt(Tail(a), Tail(b))

\* Array.prototype.sort() without comparator on distinct non-negative integers:
\* ascending order of their string forms
SortDefault(S) ==
    CHOOSE s \in [1..Cardinality(S) -> S] :
        \A i, j \in 1..Cardinality(S) : i < j => StrLt(Digits(s[i].n), Digits(s[j].n))

(***************************************************************************)
(* IEEE 754 binary64 arithmetic (round to nearest, ties to even), as       *)
(* JavaScript performs it on numbers.  A mantissa has 53 bits, more than   *)
(* an integer of the model checker holds, so natural numbers are kept as   *)
(* little-endian sequences of limbs of LimbBits bits.                      *)
(***************************************************************************)
LimbBits == 15
LimbBase == 32768
MantissaBits == 53

RECURSIVE Pow2(_)
Pow2(k) == IF k = 0 THEN 1 ELSE 2 * Pow2(k - 1)

Limb(a, i) == IF i <= Len(a) THEN a[i] ELSE 0

\* a without leading (most significant) zero limbs
RECURSIVE NNorm(_)
NNorm(a) ==
    IF a = <<>> THEN a
    ELSE IF a[Len(a)] = 0 THEN NNorm(SubSeq(a, 1, Len(a) - 1))
    ELSE a

RECURSIVE NFromInt(_)
NFromInt(i) == IF i = 0 THEN <<>> ELSE <<i % LimbBase>> \o NFromInt(i \div LimbBase)

RECURSIVE NAddFrom(_, _, _, _)
NAddFrom(a, b, i, carry) ==
    IF i > Len(a) /\ i > Len(b) THEN (IF carry = 0 THEN <<>> ELSE <<carry>>)
    ELSE LET s == Limb(a, i) + Limb(b, i) + carry
         IN  <<s % LimbBase>> \o NAddFrom(a, b, i + 1, s \div LimbBase)

NAdd(a, b) == NAddFrom(a, b, 1, 0)

\* a - b for a >= b
RECURSIVE NSubFrom(_, _, _, _)
NSubFrom(a, b, i, borrow) ==
    IF i > Len(a) THEN <<>>
    ELSE LET s == Limb(a, i) - Limb(b, i) - borrow
         IN  IF s < 0 THEN <<s + LimbBase>> \o NSubFrom(a, b, i + 1, 1)
             ELSE <<s>> \o NSubFrom(a, b, i + 1, 0)

NSub(a, b) == NNorm(NSubFrom(a, b, 1, 0))

\* -1, 0, 1 as a < b, a = b, a > b
RECURSIVE NCmpFrom(_, _, _)
NCmpFrom(a, b, i) ==
    IF i = 0 THEN 0
    ELSE IF a[i] < b[i] THEN -1
    ELSE IF a[i] > b[i] THEN 1
    ELSE NCmpFrom(a, b, i - 1)

NCmp(a, b) ==
    IF Len(a) < Len(b) THEN -1
    ELSE IF Len(a) > Len(b) THEN 1
    ELSE NCmpFrom(a, b, Len(a))

\* a * s + carry for a limb s
RECURSIVE NMulLimbFrom(_, _, _, _)
NMulLimbFrom(a, s, i, carry) ==
    IF i > Len(a) THEN (IF carry = 0 THEN <<>> ELSE <<carry>>)
    ELSE LET p == a[i] * s + carry
         IN  <<p % LimbBase>> \o NMulLimbFrom(a, s, i + 1, p \div LimbBase)

NMulLimb(a, s) == IF s = 0 THEN <<>> ELSE NMulLimbFrom(a, s, 1, 0)

\* a * LimbBase^k
NShiftLimbs(a, k) == IF a = <<>> THEN a ELSE [i \in 1..k |-> 0] \o a

RECURSIVE NMulFrom(_, _, _)
NMulFrom(a, b, i) ==
    IF i > Len(b) THEN <<>>
    ELSE NAdd(NShiftLimbs(NMulLimb(a, b[i]), i - 1), NMulFrom(a, b, i + 1))

NMul(a, b) == NMulFrom(a, b, 1)

\* 2^k
NPow2(k) == [i \in 1..(k \div LimbBits) |-> 0] \o <<Pow2(k % LimbBits)>>

\* a * 2^k
NShl(a, k) == NMul(a, NPow2(k))

\* floor(a / 2^k)
NShr(a, k) ==
    LET q == k \div LimbBits
        s == k % LimbBits
    IN  NNorm([i \in 1..(Len(a) - q) |->
                (Limb(a, i + q) \div Pow2(s))
                    + (Limb(a, i + q + 1) % Pow2(s)) * Pow2(LimbBits - s)])

RECURSIVE IntBitLen(_)
IntBitLen(i) == IF i = 0 THEN 0 ELSE 1 + IntBitLen(i \div 2)

\* the number of bits of a
NBitLen(a) == IF a = <<>> THEN 0 ELSE (Len(a) - 1) * LimbBits + IntBitLen(a[Len(a)])

NIsOdd(a) == a # <<>> /\ a[1] % 2 = 1

\* floor(a / b), found bit by bit from bit i down
RECURSIVE NDivFrom(_, _, _, _)
NDivFrom(a, b, q, i) ==
    IF i < 0 THEN q
    ELSE LET q2 == NAdd(q, NPow2(i))
         IN  IF NCmp(NMul(q2, b), a) <= 0 THEN NDivFrom(a, b, q2, i - 1)
             ELSE NDivFrom(a, b, q, i - 1)

NDiv(a, b) ==
    IF NCmp(a, b) < 0 THEN <<>> ELSE NDivFrom(a, b, <<>>, NBitLen(a) - NBitLen(b))

\* floor(sqrt(a)), found bit by bit from bit i down
RECURSIVE NSqrtFrom(_, _, _)
NSqrtFrom(a, r, i) ==
    IF i < 0 THEN r
    ELSE LET r2 == NAdd(r, NPow2(i))
         IN  IF NCmp(NMul(r2, r2), a) <= 0 THEN NSqrtFrom(a, r2, i - 1)
             ELSE NSqrtFrom(a, r, i - 1)

NSqrt(a) == NSqrtFrom(a, <<>>, NBitLen(a) \div 2)

\* a double: NaN, or sign s (1 or -1) times mantissa m times 2^e, where m is 0
\* (then e = 0) or has exactly MantissaBits bits.  Exponents are unbounded:
\* overflow to Infinity and subnormal numbers are outside the model.
DNaN == [k |-> "nan", s |-> 1, e |-> 0, m |-> <<>>]

DZero == [k |-> "fin", s |-> 1, e |-> 0, m |-> <<>>]

\* s * (m + f) * 2^e rounded to a double, where 0 <= f < 1 and f > 0 iff
\* sticky; when sticky holds m has more than MantissaBits + 1 bits
DRound(s, m, e, sticky) ==
    LET len == NBitLen(m)
        k == len - MantissaBits
    IN  IF len = 0 THEN DZero
        ELSE IF k <= 0 THEN [k |-> "fin", s |-> s, e |-> e + k, m |-> NShl(m, -k)]
        ELSE LET q == NShr(m, k)
                 rest == NSub(m, NShl(q, k))
                 c == NCmp(rest, NPow2(k - 1))
                 up == c > 0 \/ (c = 0 /\ (sticky \/ NIsOdd(q)))
                 r == IF up THEN NAdd(q, <<1>>) ELSE q
             IN  IF NBitLen(r) > MantissaBits
                 THEN [k |-> "fin", s |-> s, e |-> e + k + 1, m |-> NShr(r, 1)]
                 ELSE [k |-> "fin", s |-> s, e |-> e + k, m |-> r]

\* the double of a small integer
DNum(i) == DRound(IF i < 0 THEN -1 ELSE 1, NFromInt(IF i < 0 THEN -i ELSE i), 0, FALSE)

RECURSIVE NFromHex(_)
NFromHex(digits) ==
    IF digits = <<>> THEN <<>>
    ELSE NAdd(NMulLimb(NFromHex(SubSeq(digits, 1, Len(digits) - 1)), 16),
              NFromInt(digits[Len(digits)]))

\* the double written s * 0x1.hhhhhhhhhhhhh p exp  (13 hexadecimal digits)
DHex(s, digits, exp) ==
    [k |-> "fin", s |-> s, e |-> exp - 52, m |-> NFromHex(<<1>> \o digits)]

DNeg(a) == IF a.k = "nan" \/ a.m = <<>> THEN a ELSE [a EXCEPT !.s = -a.s]

\* -1, 0, 1 as |a| < |b|, |a| = |b|, |a| > |b|, for finite a and b
DCmpAbs(a, b) ==
    IF a.m = <<>> THEN (IF b.m = <<>> THEN 0 ELSE -1)
    ELSE IF b.m = <<>> THEN 1
    ELSE IF a.e < b.e THEN -1
    ELSE IF a.e > b.e THEN 1
    ELSE NCmp(a.m, b.m)

\* -1, 0, 1 as a < b, a = b, a > b, for finite a and b
DCmp(a, b) ==
    LET sa == IF a.m = <<>> THEN 0 ELSE a.s
        sb == IF b.m = <<>> THEN 0 ELSE b.s
    IN  IF sa < sb THEN -1
        ELSE IF sa > sb THEN 1
        ELSE IF sa = 0 THEN 0
        ELSE sa * DCmpAbs(a, b)

DLt(a, b) == a.k = "fin" /\ b.k = "fin" /\ DCmp(a, b) < 0
DLe(a, b) == a.k = "fin" /\ b.k = "fin" /\ DCmp(a, b) <= 0
DEq(a, b) == a.k = "fin" /\ b.k = "fin" /\ DCmp(a, b) = 0

\* a + b
DAdd(a, b) ==
    IF a.k = "nan" \/ b.k = "nan" THEN DNaN
    ELSE IF a.m = <<>> THEN b
    ELSE IF b.m = <<>> THEN a
    ELSE LET e0 == IF a.e < b.e THEN a.e ELSE b.e
             ma == NShl(a.m, a.e - e0)
             mb == NShl(b.m, b.e - e0)
             c == NCmp(ma, mb)
         IN  IF a.s = b.s THEN DRound(a.s, NAdd(ma, mb), e0, FALSE)
             ELSE IF c = 0 THEN DZero
             ELSE IF c > 0 THEN DRound(a.s, NSub(ma, mb), e0, FALSE)
             ELSE DRound(b.s, NSub(mb, ma), e0, FALSE)

\* a - b
DSub(a, b) == DAdd(a, DNeg(b))

\* a * b
DMul(a, b) ==
    IF a.k = "nan" \/ b.k = "nan" THEN DNaN
    ELSE IF a.m = <<>> \/ b.m = <<>> THEN DZero
    ELSE DRound(a.s * b.s, NMul(a.m, b.m), a.e + b.e, FALSE)

\* a / b for b different from 0
DDiv(a, b) ==
    IF a.k = "nan" \/ b.k = "nan" THEN DNaN
    ELSE IF a.m = <<>> THEN DZero
    ELSE LET num == NShl(a.m, MantissaBits + 3)
             q == NDiv(num, b.m)
         IN  DRound(a.s * b.s, q, a.e - b.e - (MantissaBits + 3), NMul(q, b.m) # num)

\* Math.sqrt(a)
DSqrt(a) ==
    IF a.k = "nan" THEN DNaN
    ELSE IF a.m = <<>> THEN DZero
    ELSE IF a.s < 0 THEN DNaN
    ELSE LET k == IF (a.e % 2) = 0 THEN MantissaBits + 5 ELSE MantissaBits + 6
             num == NShl(a.m, k)
             r == NSqrt(num)
         IN  DRound(1, r, (a.e - k) \div 2, NMul(r, r) # num)

(***************************************************************************)
(* models/TrajectoryAnalyzer.js                                            *)
(***************************************************************************)
calculateMean(vals) ==
    IF Len(vals) = 0 THEN Zero ELSE Div(SumOf(vals), Num(Len(vals)))

calculateStandardDeviation(vals) ==
    IF Len(vals) = 0 THEN Zero
    ELSE LET mean == calculateMean(vals)
             squaredDiffs == [i \in 1..Len(vals) |-> MathPow2(Sub(vals[i], mean))]
         IN  MathSqrt(calculateMean(squaredDiffs))

HasError(p) == p.error # Undefined
HasErrorXY(p) == p.error_xy # Undefined
HasErrorZ(p) == p.error_z # Undefined
IsWaypoint(p) == p.phase = "waypoint"
IsTransit(p) == p.phase = "transit"
IsStabilized(p) == p.stabilized
HasSequenceIndex(p) == p.sequence_index # Undefined

\* the running maximum kept by the forEach of calculatePathAccuracy
RECURSIVE MaxDeviation(_)
MaxDeviation(errs) ==
    IF errs = <<>> THEN Zero
    ELSE LET prev == MaxDeviation(SubSeq(errs, 1, Len(errs) - 1))
         IN  IF Gt(errs[Len(errs)], prev) THEN errs[Len(errs)] ELSE prev

calculatePathAccuracy(pos) ==
    LET errors   == [i \in 1..Len(Filter(pos, HasError)) |-> Filter(pos, HasError)[i].error]
        xyErrors == [i \in 1..Len(Filter(pos, HasErrorXY)) |-> Filter(pos, HasErrorXY)[i].error_xy]
        zErrors  == [i \in 1..Len(Filter(pos, HasErrorZ)) |-> Filter(pos, HasErrorZ)[i].error_z]
        totalDeviation == SumOf(errors)
    IN  [averageError |-> IF Len(errors) > 0 THEN Div(totalDeviation, Num(Len(errors))) ELSE Zero,
         maxError |-> MaxDeviation(errors),
         minError |-> IF Len(errors) > 0 THEN MinOf(errors) ELSE Zero,
         totalPoints |-> Len(errors),
         xyPlaneAccuracy |->
            [average |-> IF Len(xyErrors) > 0 THEN calculateMean(xyErrors) ELSE Zero,
             max |-> IF Len(xyErrors) > 0 THEN MaxOf(xyErrors) ELSE Zero,
             min |-> IF Len(xyErrors) > 0 THEN MinOf(xyErrors) ELSE Zero],
         altitudeAccuracy |->
            [average |-> IF Len(zErrors) > 0 THEN calculateMean(zErrors) ELSE Zero,
             max |-> IF Len(zErrors) > 0 THEN MaxOf(zErrors) ELSE Zero,
             min |-> IF Len(zErrors) > 0 THEN MinOf(zErrors) ELSE Zero]]

extractSequenceInfo(pos) ==
    SortDefault({pos[i].sequence_index : i \in {j \in 1..Len(pos) : HasSequenceIndex(pos[j])}})

calculateBasicStats(pos) ==
    [totalPoints |-> Len(pos),
     waypointPoints |-> Len(Filter(pos, IsWaypoint)),
     transitPoints |-> Len(Filter(pos, IsTransit)),
     sequenceIndices |-> extractSequenceInfo(pos)]

\* one entry of analyzePhases
PhaseEntry(phasePositions) ==
    [count |-> Len(phasePositions),
     averageError |->
        IF Len(phasePositions) > 0
        THEN calculateMean([i \in 1..Len(phasePositions) |-> OrElse(phasePositions[i].error, Zero)])
        ELSE Zero,
     stabilizedCount |-> Len(Filter(phasePositions, IsStabilized)),
     stabilizationRate |->
        IF Len(phasePositions) > 0
        THEN Div(Num(Len(Filter(phasePositions, IsStabilized))), Num(Len(phasePositions)))
        ELSE Zero]

analyzePhases(pos) ==
    [waypoint |-> PhaseEntry(Filter(pos, IsWaypoint)),
     transit |-> PhaseEntry(Filter(pos, IsTransit))]

\* the factor that turns the error deviation into score points
StabilityScale == 1000

\* calculateStabilityMetrics without the clamp of the score at 0
calculateStabilityMetricsUnclamped(pos) ==
    LET stabilizedCount == Len(Filter(pos, IsStabilized))
        errors == [i \in 1..Len(pos) |-> OrElse(pos[i].error, Zero)]
        errorVariance == calculateStandardDeviation(errors)
    IN  [stabilizationRatio |->
            IF Len(pos) > 0 THEN Div(Num(stabilizedCount), Num(Len(pos))) ELSE Zero,
         stabilizedPoints |-> stabilizedCount,
         unstabilizedPoints |-> Len(pos) - stabilizedCount,
         errorVariance |-> errorVariance,
         overallStabilityScore |-> Sub(Num(100), Mul(errorVariance, Num(StabilityScale)))]

calculateStabilityMetrics(pos) ==
    LET stabilizedCount == Len(Filter(pos, IsStabilized))
        stabilizationRatio ==
            IF Len(pos) > 0 THEN Div(Num(stabilizedCount), Num(Len(pos))) ELSE Zero
        errors == [i \in 1..Len(pos) |-> OrElse(pos[i].error, Zero)]
        errorVariance == calculateStandardDeviation(errors)
    IN  [stabilizationRatio |-> stabilizationRatio,
         stabilizedPoints |-> stabilizedCount,
         unstabilizedPoints |-> Len(pos) - stabilizedCount,
         errorVariance |-> errorVariance,
         overallStabilityScore |->
            MathMax(Zero, Sub(Num(100), Mul(errorVariance, Num(StabilityScale))))]

\* Euclidean distance of two points given by their coordinates
Distance(ax, ay, az, bx, by, bz) ==
    MathSqrt(Add(Add(MathPow2(Sub(bx, ax)), MathPow2(Sub(by, ay))), MathPow2(Sub(bz, az))))

RECURSIVE calculateActualDistance(_)
calculateActualDistance(pos) ==
    IF Len(pos) < 2 THEN Zero
    ELSE LET prev == pos[Len(pos) - 1]
             curr == pos[Len(pos)]
         IN  Add(calculateActualDistance(SubSeq(pos, 1, Len(pos) - 1)),
                 Distance(prev.x, prev.y, prev.z, curr.x, curr.y, curr.z))

\* the loop of calculateEfficiency over the ideal waypoints
RECURSIVE IdealDistance(_)
IdealDistance(pts) ==
    IF Len(pts) < 2 THEN Zero
    ELSE LET prev == pts[Len(pts) - 1]
             curr == pts[Len(pts)]
         IN  Add(IdealDistance(SubSeq(pts, 1, Len(pts) - 1)),
                 Distance(prev[1], prev[2], prev[3], curr[1], curr[2], curr[3]))

\* the default ratio 0.85
FallbackRatio == Rat(85, 100)

\* calculateEfficiency without the cap of the ratio at 1
calculateEfficiencyUncapped(pos, seqn) ==
    IF ~seqn.defined \/ Len(seqn.items) < 2 THEN
        [efficiencyRatio |-> FallbackRatio,
         actualDistance |-> calculateActualDistance(pos),
         idealDistance |-> Zero]
    ELSE LET actualDistance == calculateActualDistance(pos)
             idealDistance == IdealDistance(seqn.items)
         IN  [actualDistance |-> actualDistance,
              idealDistance |-> idealDistance,
              efficiencyRatio |->
                IF Gt(idealDistance, Zero) THEN Div(idealDistance, actualDistance)
                ELSE FallbackRatio,
              excessDistance |-> Sub(actualDistance, idealDistance)]

\* seqn is [defined |-> BOOLEAN, items |-> the waypoints]
calculateEfficiency(pos, seqn) ==
    IF ~seqn.defined \/ Len(seqn.items) < 2 THEN
        [efficiencyRatio |-> FallbackRatio,
         actualDistance |-> calculateActualDistance(pos),
         idealDistance |-> Zero]
    ELSE LET actualDistance == calculateActualDistance(pos)
             idealDistance == IdealDistance(seqn.items)
             efficiencyRatio ==
                IF Gt(idealDistance, Zero) THEN Div(idealDistance, actualDistance)
                ELSE FallbackRatio
         IN  [actualDistance |-> actualDistance,
              idealDistance |-> idealDistance,
              efficiencyRatio |-> MathMin(Num(1), efficiencyRatio),
              excessDistance |-> Sub(actualDistance, idealDistance)]

analyzeTrajectory(flightData) ==
    [pathAccuracy |-> calculatePathAccuracy(flightData.position_data),
     basicStats |-> calculateBasicStats(flightData.position_data),
     phaseAnalysis |-> analyzePhases(flightData.position_data),
     stabilityMetrics |-> calculateStabilityMetrics(flightData.position_data),
     trajectoryEfficiency |-> calculateEfficiency(flightData.position_data, flightData.sequence)]

(***************************************************************************)
(* models/UAVDataProcessor.js                                              *)
(***************************************************************************)
\* calculateStats taking the element below the middle on even length
calculateStatsLowerMedian(vals) ==
    IF Len(vals) = 0 THEN [average |-> Zero, median |-> Zero, min |-> Zero, max |-> Zero]
    ELSE LET sorted == SortNumeric(vals)
         IN  [average |-> Div(SumOf(vals), Num(Len(vals))),
              median |-> sorted[((Len(sorted) - 1) \div 2) + 1],
              min |-> sorted[1],
              max |-> sorted[Len(sorted)]]

calculateStats(vals) ==
    IF Len(vals) = 0 THEN [average |-> Zero, median |-> Zero, min |-> Zero, max |-> Zero]
    ELSE LET sorted == SortNumeric(vals)
             sum == SumOf(vals)
         IN  [average |-> Div(sum, Num(Len(vals))),
              median |-> sorted[(Len(sorted) \div 2) + 1],
              min |-> sorted[1],
              max |-> sorted[Len(sorted)]]

\* values.sort(...) on the array passed in: sort orders its receiver in place
SortInPlace(vals) == [sorted |-> SortNumeric(vals), values |-> SortNumeric(vals)]

\* const sorted = values.slice().sort((a, b) => a - b): the receiver of sort
\* is the copy made by slice(); sorted is that copy, values the array passed in
SliceSort(vals) == [sorted |-> SortNumeric(vals), values |-> vals]

\* the array passed to calculateStats, as the call leaves it
ValuesAfterCalculateStats(vals) ==
    IF Len(vals) = 0 THEN vals ELSE SliceSort(vals).values

\* values.reduce((a, b) => a + b, 0) in binary64
RECURSIVE DSumOf(_)
DSumOf(arr) ==
    IF arr = <<>> THEN DZero
    ELSE DAdd(DSumOf(SubSeq(arr, 1, Len(arr) - 1)), arr[Len(arr)])

\* values.slice().sort((a, b) => a - b) in binary64
RECURSIVE DInsert(_, _)
DInsert(sorted, v) ==
    IF sorted = <<>> THEN <<v>>
    ELSE IF DLt(DSub(v, sorted[1]), DZero) THEN <<v>> \o sorted
    ELSE <<sorted[1]>> \o DInsert(Tail(sorted), v)

RECURSIVE DSortNumeric(_)
DSortNumeric(arr) ==
    IF arr = <<>> THEN <<>>
    ELSE DInsert(DSortNumeric(SubSeq(arr, 1, Len(arr) - 1)), arr[Len(arr)])

\* calculateStats in binary64 arithmetic
calculateStatsBinary64(vals) ==
    IF Len(vals) = 0 THEN [average |-> DZero, median |-> DZero, min |-> DZero, max |-> DZero]
    ELSE LET sorted == DSortNumeric(vals)
             sum == DSumOf(vals)
         IN  [average |-> DDiv(sum, DNum(Len(vals))),
              median |-> sorted[(Len(sorted) \div 2) + 1],
              min |-> sorted[1],
              max |-> sorted[Len(sorted)]]

calculateBasicAnalysis(pos) ==
    LET errors == [i \in 1..Len(Filter(pos, HasError)) |-> Filter(pos, HasError)[i].error]
        waypointPositions == Filter(pos, IsWaypoint)
        overallStats == calculateStats(errors)
        waypointErrors ==
            [i \in 1..Len(Filter(waypointPositions, HasError)) |->
                Filter(waypointPositions, HasError)[i].error]
        waypointStats == calculateStats(waypointErrors)
        responseTime ==
            IF Len(pos) > 0 THEN Sub(pos[Len(pos)].time, pos[1].time) ELSE Zero
    IN  [totalPoints |-> Len(pos),
         waypointPoints |-> Len(waypointPositions),
         transitPoints |-> Len(pos) - Len(waypointPositions),
         responseTime |-> responseTime,
         positionAccuracy |->
            [overall |-> overallStats,
             waypoint |->
                [average |-> waypointStats.average,
                 median |-> waypointStats.median,
                 min |-> waypointStats.min,
                 max |-> waypointStats.max,
                 count |-> Len(waypointPositions),
                 percentage |->
                    Mul(Div(Num(Len(waypointPositions)), Num(Len(pos))), Num(100))]]]


(***************************************************************************)
(* routes/analysis.js: helper functions                                    *)
(***************************************************************************)
\* calculateCorrelation returning numerator / denominator unguarded
calculateCorrelationUnguarded(xs, ys) ==
    LET n == Len(xs)
    IN  IF n # Len(ys) \/ n = 0 THEN Zero
        ELSE LET sumX == SumOf(xs)
                 sumY == SumOf(ys)
                 sumXY == SumOf([i \in 1..n |-> Mul(xs[i], ys[i])])
                 sumXX == SumOf([i \in 1..n |-> Mul(xs[i], xs[i])])
                 sumYY == SumOf([i \in 1..n |-> Mul(ys[i], ys[i])])
                 numerator == Sub(Mul(Num(n), sumXY), Mul(sumX, sumY))
                 denominator ==
                    MathSqrt(Mul(Sub(Mul(Num(n), sumXX), Mul(sumX, sumX)),
                                 Sub(Mul(Num(n), sumYY), Mul(sumY, sumY))))
             IN  Div(numerator, denominator)

calculateCorrelation(xs, ys) ==
    LET n == Len(xs)
    IN  IF n # Len(ys) \/ n = 0 THEN Zero
        ELSE LET sumX == SumOf(xs)
                 sumY == SumOf(ys)
                 sumXY == SumOf([i \in 1..n |-> Mul(xs[i], ys[i])])
                 sumXX == SumOf([i \in 1..n |-> Mul(xs[i], xs[i])])
                 sumYY == SumOf([i \in 1..n |-> Mul(ys[i], ys[i])])
                 numerator == Sub(Mul(Num(n), sumXY), Mul(sumX, sumY))
                 denominator ==
                    MathSqrt(Mul(Sub(Mul(Num(n), sumXX), Mul(sumX, sumX)),
                                 Sub(Mul(Num(n), sumYY), Mul(sumY, sumY))))
             IN  IF StrictEq(denominator, Zero) THEN Zero ELSE Div(numerator, denominator)

\* calculateCorrelation in binary64 arithmetic
calculateCorrelationBinary64(xs, ys) ==
    LET n == Len(xs)
    IN  IF n # Len(ys) \/ n = 0 THEN DZero
        ELSE LET sumX == DSumOf(xs)
                 sumY == DSumOf(ys)
                 sumXY == DSumOf([i \in 1..n |-> DMul(xs[i], ys[i])])
                 sumXX == DSumOf([i \in 1..n |-> DMul(xs[i], xs[i])])
                 sumYY == DSumOf([i \in 1..n |-> DMul(ys[i], ys[i])])
                 numerator == DSub(DMul(DNum(n), sumXY), DMul(sumX, sumY))
                 denominator ==
                    DSqrt(DMul(DSub(DMul(DNum(n), sumXX), DMul(sumX, sumX)),
                               DSub(DMul(DNum(n), sumYY), DMul(sumY, sumY))))
             IN  IF DEq(denominator, DZero) THEN DZero ELSE DDiv(numerator, denominator)

generateNetworkRecommendations(analysis, correlation) ==
    (IF "poor" \in DOMAIN analysis /\ Gt(ParseFloat(analysis["poor"].percentage), Num(10))
     THEN <<[priority |-> "high", message |-> "poor network quality",
             shown |-> analysis["poor"].percentage]>>
     ELSE <<>>)
    \o
    (IF Lt(correlation, Rat(-1, 2))
     THEN <<[priority |-> "medium", message |-> "strong negative correlation",
             shown |-> Text(Zero, "")]>>
     ELSE <<>>)
    \o
    (IF "excellent" \in DOMAIN analysis
            /\ Lt(ParseFloat(analysis["excellent"].percentage), Num(50))
     THEN <<[priority |-> "medium", message |-> "less than 50% excellent",
             shown |-> Text(Zero, "")]>>
     ELSE <<>>)

\* the effective quality (p.networkQuality || 100) of a sample
Quality(p) == OrElse(p.networkQuality, Num(100))

IsExcellent(p) == Ge(Quality(p), Num(90))
IsGood(p) == Ge(Quality(p), Num(70)) /\ Lt(Quality(p), Num(90))
IsGoodExclusive(p) == Gt(Quality(p), Num(70)) /\ Lt(Quality(p), Num(90))
IsFair(p) == Ge(Quality(p), Num(50)) /\ Lt(Quality(p), Num(70))
IsPoor(p) == Lt(Quality(p), Num(50))

\* the entry of segmentAnalysis for the samples of one bucket
SegmentEntry(data, total) ==
    [count |-> Len(data),
     percentage |-> Text(ToFixed(Mul(Div(Num(Len(data)), Num(total)), Num(100)), 1), "%"),
     averageError |->
        Text(ToFixed(Div(SumOf([i \in 1..Len(data) |-> data[i].error]), Num(Len(data))), 3), "m"),
     stabilizationRate |->
        Text(ToFixed(Mul(Div(Num(Len(Filter(data, IsStabilized))), Num(Len(data))),
                         Num(100)), 1), "%")]

\* the result of analyzeNetworkImpact for given bucket contents
NetworkImpact(positionData, segments) ==
    LET networkQualities == [i \in 1..Len(positionData) |-> Quality(positionData[i])]
        errors == [i \in 1..Len(positionData) |-> positionData[i].error]
        analysis ==
            [b \in {c \in DOMAIN segments : Len(segments[c]) > 0} |->
                SegmentEntry(segments[b], Len(positionData))]
        correlation == calculateCorrelation(networkQualities, errors)
        magnitude == IF Lt(correlation, Zero) THEN Neg(correlation) ELSE correlation
    IN  [segmentAnalysis |-> analysis,
         correlation |->
            [coefficient |-> Text(ToFixed(correlation, 3), ""),
             strength |->
                IF Gt(magnitude, Rat(7, 10)) THEN "strong"
                ELSE IF Gt(magnitude, Rat(3, 10)) THEN "moderate"
                ELSE "weak",
             interpretation |->
                IF Lt(correlation, Rat(-3, 10)) THEN "significant impact"
                ELSE IF Gt(correlation, Rat(3, 10)) THEN "unexpected positive correlation"
                ELSE "minimal impact"],
         recommendations |-> generateNetworkRecommendations(analysis, correlation)]

\* analyzeNetworkImpact with the lower bound of the good bucket exclusive
analyzeNetworkImpactGoodExclusive(positionData) ==
    NetworkImpact(positionData,
        [excellent |-> Filter(positionData, IsExcellent),
         good |-> Filter(positionData, IsGoodExclusive),
         fair |-> Filter(positionData, IsFair),
         poor |-> Filter(positionData, IsPoor)])

analyzeNetworkImpact(positionData) ==
    NetworkImpact(positionData,
        [excellent |-> Filter(positionData, IsExcellent),
         good |-> Filter(positionData, IsGood),
         fair |-> Filter(positionData, IsFair),
         poor |-> Filter(positionData, IsPoor)])

\* the comparison of the reduce callback, letting an equal value win
BetterOrEqual(type, curr, prev) ==
    CASE type = "best_stability" ->
            Ge(curr.metrics.overallStabilityScore, prev.metrics.overallStabilityScore)
      [] type = "best_efficiency" ->
            Ge(curr.metrics.efficiencyRatio, prev.metrics.efficiencyRatio)
      [] OTHER ->
            Le(curr.metrics.averageError, prev.metrics.averageError)

\* the comparison of the reduce callback that looks for the best flight
Better(type, curr, prev) ==
    CASE type = "best_stability" ->
            Gt(curr.metrics.overallStabilityScore, prev.metrics.overallStabilityScore)
      [] type = "best_efficiency" ->
            Gt(curr.metrics.efficiencyRatio, prev.metrics.efficiencyRatio)
      [] OTHER ->
            Lt(curr.metrics.averageError, prev.metrics.averageError)

\* comparisons.reduce((prev, curr) => better(curr, prev) ? curr : prev) on a
\* non-empty array
RECURSIVE ReduceBest(_, _)
ReduceBest(arr, type) ==
    IF Len(arr) = 1 THEN arr[1]
    ELSE LET prev == ReduceBest(SubSeq(arr, 1, Len(arr) - 1), type)
             curr == arr[Len(arr)]
         IN  IF Better(type, curr, prev) THEN curr ELSE prev

\* reduce without initial value raises a TypeError on an empty array
generateComparativeInsightsThrows(cs) == Len(cs) = 0

generateComparativeInsights(cs) ==
    LET bestStability == ReduceBest(cs, "best_stability")
        bestEfficiency == ReduceBest(cs, "best_efficiency")
        bestAccuracy == ReduceBest(cs, "best_accuracy")
        networkCorrelations == [i \in 1..Len(cs) |-> cs[i].metrics.networkCorrelation]
        avgCorrelation == Div(SumOf(networkCorrelations), Num(Len(networkCorrelations)))
    IN  <<[type |-> "best_stability",
           shown |-> Text(ToFixed(bestStability.metrics.overallStabilityScore, 1), "%"),
           flightId |-> bestStability.flightId],
          [type |-> "best_efficiency",
           shown |-> Text(ToFixed(Mul(bestEfficiency.metrics.efficiencyRatio, Num(100)), 1), "%"),
           flightId |-> bestEfficiency.flightId],
          [type |-> "best_accuracy",
           shown |-> Text(ToFixed(bestAccuracy.metrics.averageError, 3), "m"),
           flightId |-> bestAccuracy.flightId]>>
        \o
        (IF Lt(avgCorrelation, Rat(-3, 10))
         THEN <<[type |-> "network_correlation",
                 shown |-> Text(ToFixed(avgCorrelation, 3), ""),
                 flightId |-> 0]>>
         ELSE <<>>)

calculatePerformanceVariation(cs) ==
    LET stabilityScores == [i \in 1..Len(cs) |-> cs[i].metrics.overallStabilityScore]
        mean == Div(SumOf(stabilityScores), Num(Len(stabilityScores)))
        variance ==
            Div(SumOf([i \in 1..Len(cs) |-> MathPow2(Sub(stabilityScores[i], mean))]),
                Num(Len(stabilityScores)))
        stdDev == MathSqrt(variance)
    IN  IF Lt(stdDev, Num(5)) THEN "Low"
        ELSE IF Lt(stdDev, Num(15)) THEN "Medium"
        ELSE "High"

generateComparisonSummary(cs) ==
    LET stability == [i \in 1..Len(cs) |-> cs[i].metrics.overallStabilityScore]
        efficiency == [i \in 1..Len(cs) |-> Mul(cs[i].metrics.efficiencyRatio, Num(100))]
        accuracy == [i \in 1..Len(cs) |-> cs[i].metrics.averageError]
        smoothness == [i \in 1..Len(cs) |-> Mul(cs[i].metrics.pathSmoothness, Num(100))]
    IN  [averageStability |-> Text(ToFixed(Div(SumOf(stability), Num(Len(cs))), 1), "%"),
         averageEfficiency |-> Text(ToFixed(Div(SumOf(efficiency), Num(Len(cs))), 1), "%"),
         averageAccuracy |-> Text(ToFixed(Div(SumOf(accuracy), Num(Len(cs))), 3), "m"),
         averageSmoothness |-> Text(ToFixed(Div(SumOf(smoothness), Num(Len(cs))), 1), "%"),
         performanceVariation |-> calculatePerformanceVariation(cs)]

\* the value fields of a series of data points
PointValues(pts) == [i \in 1..Len(pts) |-> pts[i].value]

\* the label of calculateTrendDirection for the two halves of the series
TrendOfHalves(firstHalf, secondHalf, threshold) ==
    LET firstAvg == Div(SumOf(PointValues(firstHalf)), Num(Len(firstHalf)))
        secondAvg == Div(SumOf(PointValues(secondHalf)), Num(Len(secondHalf)))
        changePercent == Mul(Div(Sub(secondAvg, firstAvg), firstAvg), Num(100))
    IN  IF Gt(changePercent, Num(threshold)) THEN "improving"
        ELSE IF Lt(changePercent, Num(-threshold)) THEN "declining"
        ELSE "stable"

\* calculateTrendDirection with thresholds of 5 percent
calculateTrendDirectionFivePercent(pts) ==
    IF Len(pts) < 2 THEN "insufficient_data"
    ELSE TrendOfHalves(SubSeq(pts, 1, Len(pts) \div 2),
                       SubSeq(pts, (Len(pts) \div 2) + 1, Len(pts)), 5)

\* calculateTrendDirection splitting the series after ceil(n/2) points
calculateTrendDirectionCeilSplit(pts) ==
    IF Len(pts) < 2 THEN "insufficient_data"
    ELSE TrendOfHalves(SubSeq(pts, 1, (Len(pts) + 1) \div 2),
                       SubSeq(pts, ((Len(pts) + 1) \div 2) + 1, Len(pts)), 10)

calculateTrendDirection(pts) ==
    IF Len(pts) < 2 THEN "insufficient_data"
    ELSE TrendOfHalves(SubSeq(pts, 1, Len(pts) \div 2),
                       SubSeq(pts, (Len(pts) \div 2) + 1, Len(pts)), 10)

HighError(flight) == Gt(flight.analysis.positionAccuracy.overall.average, Rat(1, 10))
LowBattery(flight) == Lt(flight.analysis.battery.startVoltage, Rat(39, 10))

\* identifyCommonIssues reporting high errors from half of the flights on
identifyCommonIssuesFromHalf(fls) ==
    (IF Ge(Num(Len(Filter(fls, HighError))), Mul(Num(Len(fls)), Rat(5, 10)))
     THEN <<"More than 50% of flights show high positioning errors (>10cm)">>
     ELSE <<>>)
    \o
    (IF Gt(Num(Len(Filter(fls, LowBattery))), Mul(Num(Len(fls)), Rat(3, 10)))
     THEN <<"30% of flights started with low battery voltage (<3.9V)">>
     ELSE <<>>)

identifyCommonIssues(fls) ==
    (IF Gt(Num(Len(Filter(fls, HighError))), Mul(Num(Len(fls)), Rat(5, 10)))
     THEN <<"More than 50% of flights show high positioning errors (>10cm)">>
     ELSE <<>>)
    \o
    (IF Gt(Num(Len(Filter(fls, LowBattery))), Mul(Num(Len(fls)), Rat(3, 10)))
     THEN <<"30% of flights started with low battery voltage (<3.9V)">>
     ELSE <<>>)

analyzeFlightPatterns(fls) ==
    LET accuracyTrend ==
            [i \in 1..Len(fls) |->
                [date |-> fls[i].createdAt,
                 value |-> fls[i].analysis.positionAccuracy.overall.average]]
        stabilityTrend ==
            [i \in 1..Len(fls) |->
                [date |-> fls[i].createdAt,
                 value |-> fls[i].analysis.positionAccuracy.waypoint.percentage]]
        accuracy == calculateTrendDirection(accuracyTrend)
    IN  [trends |-> [accuracy |-> accuracy,
                     stability |-> calculateTrendDirection(stabilityTrend)],
         insights |->
            (IF accuracy = "improving" THEN <<"Flight accuracy is improving over time">>
             ELSE IF accuracy = "declining"
             THEN <<"Flight accuracy is declining - consider system maintenance">>
             ELSE <<>>)
            \o identifyCommonIssues(fls),
         recommendations |->
            IF accuracy = "declining" THEN <<"Review and recalibrate positioning sensors">>
            ELSE <<>>]

\* the calendar date <<year, month, day>> of a day number (days since 1970-01-01)
CivilFromDays(days) ==
    LET z == days + 719468
        era == z \div 146097
        doe == z - era * 146097
        yoe == (doe - (doe \div 1460) + (doe \div 36524) - (doe \div 146096)) \div 365
        doy == doe - (365 * yoe + (yoe \div 4) - (yoe \div 100))
        mp == (5 * doy + 2) \div 153
        day == doy - ((153 * mp + 2) \div 5) + 1
        month == IF mp < 10 THEN mp + 3 ELSE mp - 9
        year == yoe + era * 400 + (IF month <= 2 THEN 1 ELSE 0)
    IN  <<year, month, day>>

\* date.getDay(): 0 is Sunday; 1970-01-01 was a Thursday
GetDay(days) == (days + 4) % 7

\* the key of groupFlightsByPeriod for a creation day
PeriodKey(days, period) ==
    CASE period = "weekly" -> CivilFromDays(days - GetDay(days))
      [] period = "monthly" -> SubSeq(CivilFromDays(days), 1, 2)
      [] OTHER -> CivilFromDays(days)

\* groupFlightsByPeriod with grouped[key] = [flight] for every flight
RECURSIVE groupFlightsByPeriodLast(_, _)
groupFlightsByPeriodLast(fls, period) ==
    IF fls = <<>> THEN <<>>
    ELSE LET grouped == groupFlightsByPeriodLast(SubSeq(fls, 1, Len(fls) - 1), period)
             flight == fls[Len(fls)]
             key == PeriodKey(flight.createdAt, period)
         IN  IF \E i \in 1..Len(grouped) : grouped[i].key = key
             THEN [i \in 1..Len(grouped) |->
                     IF grouped[i].key = key
                     THEN [key |-> key, flights |-> <<flight>>]
                     ELSE grouped[i]]
             ELSE Append(grouped, [key |-> key, flights |-> <<flight>>])

\* the keys in insertion order, each with its flights in input order
RECURSIVE groupFlightsByPeriod(_, _)
groupFlightsByPeriod(fls, period) ==
    IF fls = <<>> THEN <<>>
    ELSE LET grouped == groupFlightsByPeriod(SubSeq(fls, 1, Len(fls) - 1), period)
             flight == fls[Len(fls)]
             key == PeriodKey(flight.createdAt, period)
         IN  IF \E i \in 1..Len(grouped) : grouped[i].key = key
             THEN [i \in 1..Len(grouped) |->
                     IF grouped[i].key = key
                     THEN [key |-> key, flights |-> Append(grouped[i].flights, flight)]
                     ELSE grouped[i]]
             ELSE Append(grouped, [key |-> key, flights |-> <<flight>>])

\* Array.prototype.sort((a, b) => new Date(a.date) - new Date(b.date))
RECURSIVE InsertByDate(_, _)
InsertByDate(sorted, e) ==
    IF sorted = <<>> THEN <<e>>
    ELSE IF e.date < sorted[1].date THEN <<e>> \o sorted
    ELSE <<sorted[1]>> \o InsertByDate(Tail(sorted), e)

RECURSIVE SortByDate(_)
SortByDate(arr) ==
    IF arr = <<>> THEN <<>>
    ELSE InsertByDate(SortByDate(SubSeq(arr, 1, Len(arr) - 1)), arr[Len(arr)])

MetricOf(flight, metric) ==
    CASE metric = "accuracy" -> flight.analysis.positionAccuracy.overall.average
      [] metric = "stability" -> flight.analysis.positionAccuracy.waypoint.percentage
      [] OTHER -> flight.analysis.responseTime

generatePerformanceTrends(fls, metric, period) ==
    LET groupedData == groupFlightsByPeriod(fls, period)
    IN  SortByDate(
            [g \in 1..Len(groupedData) |->
                LET periodFlights == groupedData[g].flights
                IN  [period |-> groupedData[g].key,
                     value |->
                        IF metric \in {"accuracy", "stability", "response_time"}
                        THEN Div(SumOf([i \in 1..Len(periodFlights) |->
                                            MetricOf(periodFlights[i], metric)]),
                                 Num(Len(periodFlights)))
                        ELSE Zero,
                     flightCount |-> Len(periodFlights),
                     date |-> periodFlights[1].createdAt]])

calculateTrendSummary(trends) ==
    IF Len(trends) < 2 THEN [message |-> "Insufficient data for trend analysis"]
    ELSE LET firstValue == trends[1].value
             lastValue == trends[Len(trends)].value
             change == Mul(Div(Sub(lastValue, firstValue), firstValue), Num(100))
         IN  [totalDataPoints |-> Len(trends),
              overallChange |-> Text(ToFixed(change, 2), "%"),
              trend |->
                IF Gt(change, Num(5)) THEN "improving"
                ELSE IF Lt(change, Num(-5)) THEN "declining"
                ELSE "stable",
              averageValue |->
                Text(ToFixed(Div(SumOf(PointValues(trends)), Num(Len(trends))), 3), "")]

(***************************************************************************)
(* Inputs.                                                                 *)
(***************************************************************************)
\* a position sample of position_data
Sample(pt, err, ph, st, nq) ==
    [x |-> Num(pt[1]), y |-> Num(pt[2]), z |-> Num(pt[3]), time |-> Zero,
     error |-> err, error_xy |-> Undefined, error_z |-> Undefined,
     phase |-> ph, stabilized |-> st, networkQuality |-> nq,
     sequence_index |-> Undefined]

\* positions whose mutual distances are 0, 1 or sqrt(2)
Points == {<<0, 0, 0>>, <<1, 0, 0>>, <<1, 1, 0>>, <<1, 0, 1>>}

Waypoints == {<<Num(pt[1]), Num(pt[2]), Num(pt[3])>> : pt \in Points}

ErrorValues == {Undefined, Rat(1, 100), Rat(3, 100), Rat(5, 100), Rat(30, 100)}

GeometrySamples == {Sample(pt, Rat(2, 100), "transit", TRUE, Undefined) : pt \in Points}

ErrorSamples ==
    {Sample(<<0, 0, 0>>, e, ps[1], ps[2], Undefined) :
        e \in ErrorValues,
        ps \in {<<"waypoint", TRUE>>, <<"waypoint", FALSE>>, <<"transit", FALSE>>}}

NoSequence == [defined |-> FALSE, items |-> <<>>]

NoResult == [op |-> "none", threw |-> FALSE, value |-> Zero]

Returned(name, v) == [op |-> name, threw |-> FALSE, value |-> v]

Threw(name) == [op |-> name, threw |-> TRUE, value |-> Zero]

(***************************************************************************)
(* Trajectory metrics of one flight.                                       *)
(***************************************************************************)
\* the web layer at rest: empty collections, no request, nothing emitted
\* let mockUsers = [...] and let mockFlights = [...] of server.js
InitialMockUsers ==
    <<[id |-> 1, name |-> "Alice Carter", email |-> "alice@example.com",
       role |-> "admin", status |-> "active"],
      [id |-> 2, name |-> "Ben Singh", email |-> "ben@example.com",
       role |-> "analyst", status |-> "active"],
      [id |-> 3, name |-> "Chloe Zhang", email |-> "chloe@example.com",
       role |-> "viewer", status |-> "suspended"]>>

InitialMockFlights ==
    <<[id |-> "F-001", name |-> "Harbor Survey", date |-> "2025-01-15", status |-> "processed"],
      [id |-> "F-002", name |-> "Forest Pass", date |-> "2025-01-16", status |-> "pending"],
      [id |-> "F-003", name |-> "City Grid", date |-> "2025-01-17", status |-> "processed"]>>

WebIdle ==
    /\ FlightData = {}
    /\ AnalysisReport = {}
    /\ mockUsers = InitialMockUsers
    /\ mockFlights = InitialMockFlights
    /\ uploads = {}
    /\ User = {}
    /\ registrations = <<>>
    /\ req = [kind |-> "none"]
    /\ pc = "idle"
    /\ response = [status |-> 0]
    /\ analyses = <<>>
    /\ emitted = <<>>

InitTrajectory ==
    /\ \/ /\ positions \in SeqUpTo(GeometrySamples, MaxSamples)
          /\ sequence \in {NoSequence} \cup
                {[defined |-> TRUE, items |-> s] : s \in SeqUpTo(Waypoints, MaxWaypoints)}
       \/ /\ positions \in SeqUpTo(ErrorSamples, MaxSamples)
          /\ sequence = NoSequence
    /\ values = <<>>
    /\ x = <<>>
    /\ y = <<>>
    /\ dataPoints = <<>>
    /\ comparisons = <<>>
    /\ flights = <<>>
    /\ result = NoResult
    /\ WebIdle

AnalyzeTrajectory ==
    /\ result.op = "none"
    /\ result' = Returned("analyzeTrajectory",
                          analyzeTrajectory([position_data |-> positions, sequence |-> sequence]))
    /\ UNCHANGED <<positions, sequence, values, x, y, dataPoints, comparisons, flights, webVars>>

CalculateBasicAnalysis ==
    /\ result.op = "none"
    /\ result' = Returned("calculateBasicAnalysis", calculateBasicAnalysis(positions))
    /\ UNCHANGED <<positions, sequence, values, x, y, dataPoints, comparisons, flights, webVars>>

NextTrajectory == AnalyzeTrajectory \/ CalculateBasicAnalysis

SpecTrajectory == InitTrajectory /\ [][NextTrajectory]_vars


(***************************************************************************)
(* Properties of the trajectory metrics.                                   *)
(***************************************************************************)
\* the ideal path is absent, has fewer than 2 waypoints, or has length 0
DegenerateIdealPath ==
    \/ ~sequence.defined
    \/ Len(sequence.items) < 2
    \/ \A i \in 1..(Len(sequence.items) - 1) : sequence.items[i] = sequence.items[i + 1]

\* the samples do not move: the actual path has length 0
ZeroActualPath ==
    \A i \in 1..(Len(positions) - 1) :
        /\ positions[i].x = positions[i + 1].x
        /\ positions[i].y = positions[i + 1].y
        /\ positions[i].z = positions[i + 1].z

\* C1: the efficiency ratio returned by calculateEfficiency lies in [0, 1],
\* and is exactly 0.85 when the ideal path is absent, has fewer than 2
\* waypoints or has length 0; also when the actual path has length 0.
C1_EfficiencyRatio ==
    result.op = "analyzeTrajectory" =>
        LET ratio == result.value.trajectoryEfficiency.efficiencyRatio
        IN  /\ IsFinite(ratio)
            /\ Le(Zero, ratio)
            /\ Le(ratio, Num(1))
            /\ DegenerateIdealPath => ratio = Rat(85, 100)

\* the actual path has length 0 while the ideal path has positive length
C1_Witness ==
    /\ result.op = "analyzeTrajectory"
    /\ Len(positions) = 2
    /\ ZeroActualPath
    /\ ~DegenerateIdealPath
    /\ Le(result.value.trajectoryEfficiency.efficiencyRatio, Num(1))

\* the error values as calculateStabilityMetrics reads them
SampleErrors == [i \in 1..Len(positions) |-> OrElse(positions[i].error, Zero)]

\* population variance: mean of the squares minus the square of the mean
PopulationVariance(errs) ==
    IF Len(errs) = 0 THEN Zero
    ELSE Sub(Div(SumOf([i \in 1..Len(errs) |-> Mul(errs[i], errs[i])]), Num(Len(errs))),
             MathPow2(Div(SumOf(errs), Num(Len(errs)))))

C8_ZeroSamplesFinite ==
    Len(positions) = 0 =>
        /\ ~result.threw
        /\ result.op = "analyzeTrajectory" =>
            /\ IsFinite(result.value.pathAccuracy.averageError)
            /\ IsFinite(result.value.pathAccuracy.maxError)
            /\ IsFinite(result.value.pathAccuracy.minError)
            /\ IsFinite(result.value.phaseAnalysis.waypoint.averageError)
            /\ IsFinite(result.value.phaseAnalysis.waypoint.stabilizationRate)
            /\ IsFinite(result.value.phaseAnalysis.transit.averageError)
            /\ IsFinite(result.value.phaseAnalysis.transit.stabilizationRate)
            /\ IsFinite(result.value.stabilityMetrics.stabilizationRatio)
            /\ IsFinite(result.value.stabilityMetrics.errorVariance)
            /\ IsFinite(result.value.stabilityMetrics.overallStabilityScore)
            /\ IsFinite(result.value.trajectoryEfficiency.efficiencyRatio)
            /\ IsFinite(result.value.trajectoryEfficiency.actualDistance)
            /\ IsFinite(result.value.trajectoryEfficiency.idealDistance)
        /\ result.op = "calculateBasicAnalysis" =>
            /\ IsFinite(result.value.responseTime)
            /\ IsFinite(result.value.positionAccuracy.overall.average)
            /\ IsFinite(result.value.positionAccuracy.overall.median)
            /\ IsFinite(result.value.positionAccuracy.overall.min)
            /\ IsFinite(result.value.positionAccuracy.overall.max)
            /\ IsFinite(result.value.positionAccuracy.waypoint.average)
            /\ IsFinite(result.value.positionAccuracy.waypoint.percentage)


(***************************************************************************)
(* Sample statistics: calculateStats and calculateCorrelation.             *)
(***************************************************************************)
StatValues == {Rat(i, 10) : i \in 1..5}

CorrValues == {Zero, Num(1), Rat(5, 2)}

InitStats ==
    /\ \/ /\ values \in SeqUpTo(StatValues, MaxValues)
          /\ x = <<>>
          /\ y = <<>>
       \/ /\ values = <<>>
          /\ x \in SeqUpTo(CorrValues, MaxCorrLen)
          /\ y \in SeqUpTo(CorrValues, MaxCorrLen)
    /\ positions = <<>>
    /\ sequence = NoSequence
    /\ dataPoints = <<>>
    /\ comparisons = <<>>
    /\ flights = <<>>
    /\ result = NoResult
    /\ WebIdle

CalculateStats ==
    /\ result.op = "none"
    /\ result' = Returned("calculateStats", calculateStats(values))
    /\ values' = ValuesAfterCalculateStats(values)
    /\ UNCHANGED <<positions, sequence, x, y, dataPoints, comparisons, flights, webVars>>

CalculateCorrelation ==
    /\ result.op = "none"
    /\ result' = Returned("calculateCorrelation", calculateCorrelation(x, y))
    /\ UNCHANGED <<positions, sequence, values, x, y, dataPoints, comparisons, flights, webVars>>

NextStats == CalculateStats \/ CalculateCorrelation

SpecStats == InitStats /\ [][NextStats]_vars

\* the k-th smallest element of vals (k = 1 is the minimum), by counting
KthSmallest(vals, k) ==
    CHOOSE v \in {vals[i] : i \in 1..Len(vals)} :
        /\ Cardinality({i \in 1..Len(vals) : Lt(vals[i], v)}) < k
        /\ k <= Cardinality({i \in 1..Len(vals) : Le(vals[i], v)})

\* C5 as stated: the median is the middle element of the sorted copy on odd
\* length and the lower of the two middle elements on even length.
C5_MedianLowerMiddle ==
    (result.op = "calculateStats" /\ Len(values) > 0) =>
        result.value.median =
            IF Len(values) % 2 = 1 THEN KthSmallest(values, (Len(values) + 1) \div 2)
            ELSE KthSmallest(values, Len(values) \div 2)

\* C5 amended: the median is the middle element of the sorted copy on odd
\* length and the upper of the two middle elements on even length; it is
\* always an element of the input (no interpolation).
C5_MedianUpperMiddle ==
    (result.op = "calculateStats" /\ Len(values) > 0) =>
        /\ result.value.median =
            IF Len(values) % 2 = 1 THEN KthSmallest(values, (Len(values) + 1) \div 2)
            ELSE KthSmallest(values, (Len(values) \div 2) + 1)
        /\ \E i \in 1..Len(values) : result.value.median = values[i]

\* statistics of an even-length list whose two middle elements differ
C5_Witness ==
    /\ result.op = "calculateStats"
    /\ Len(values) = 4
    /\ KthSmallest(values, 2) # KthSmallest(values, 3)
    /\ result.value.median = KthSmallest(values, 3)

\* all elements of a list are the same number
IsConstant(arr) == \A i, j \in 1..Len(arr) : arr[i] = arr[j]

\* C10 read in the arithmetic of the real numbers: calculateCorrelation
\* returns 0, without raising, when x and y differ in length, are empty, or
\* one of them is constant; every other result lies in [-1, 1].
C10_CorrelationRange ==
    result.op = "calculateCorrelation" =>
        /\ ~result.threw
        /\ (Len(x) # Len(y) \/ Len(x) = 0 \/ IsConstant(x) \/ IsConstant(y))
                => result.value = Zero
        /\ IsFinite(result.value)
        /\ Le(Num(-1), result.value)
        /\ Le(result.value, Num(1))

\* a correlation strictly between 0 and 1 of two non-constant series
C10_Witness ==
    /\ result.op = "calculateCorrelation"
    /\ Len(x) = Len(y)
    /\ ~IsConstant(x)
    /\ ~IsConstant(y)
    /\ Lt(Zero, result.value)
    /\ Lt(result.value, Num(1))


(***************************************************************************)
(* Sample statistics in binary64 arithmetic.                               *)
(***************************************************************************)
\* the numbers 0.01, 0.02, 0.1 and 0.1000000001
DoubleValues ==
    {DHex(1, <<4, 7, 10, 14, 1, 4, 7, 10, 14, 1, 4, 7, 11>>, -7),
     DHex(1, <<4, 7, 10, 14, 1, 4, 7, 10, 14, 1, 4, 7, 11>>, -6),
     DHex(1, <<9, 9, 9, 9, 9, 9, 9, 9, 9, 9, 9, 9, 10>>, -4),
     DHex(1, <<9, 9, 9, 9, 9, 10, 0, 7, 9, 4, 1, 6, 13>>, -4)}

InitBinary64 ==
    /\ \/ /\ values \in SeqUpTo(DoubleValues, MaxDoubles)
          /\ x = <<>>
          /\ y = <<>>
       \/ /\ values = <<>>
          /\ x \in SeqUpTo(DoubleValues, MaxCorrDoubles)
          /\ y \in SeqUpTo(DoubleValues, MaxCorrDoubles)
    /\ positions = <<>>
    /\ sequence = NoSequence
    /\ dataPoints = <<>>
    /\ comparisons = <<>>
    /\ flights = <<>>
    /\ result = NoResult
    /\ WebIdle

CalculateStatsBinary64 ==
    /\ result.op = "none"
    /\ result' = Returned("calculateStats", calculateStatsBinary64(values))
    /\ UNCHANGED <<positions, sequence, values, x, y, dataPoints, comparisons, flights, webVars>>

CalculateCorrelationBinary64 ==
    /\ result.op = "none"
    /\ result' = Returned("calculateCorrelation", calculateCorrelationBinary64(x, y))
    /\ UNCHANGED <<positions, sequence, values, x, y, dataPoints, comparisons, flights, webVars>>

NextBinary64 == CalculateStatsBinary64 \/ CalculateCorrelationBinary64

SpecBinary64 == InitBinary64 /\ [][NextBinary64]_vars

\* C10: calculateCorrelation returns 0, without raising, when x and y differ
\* in length, are empty, or one of them is constant; every other result
\* lies in [-1, 1].
C10_CorrelationRangeBinary64 ==
    result.op = "calculateCorrelation" =>
        /\ ~result.threw
        /\ (Len(x) # Len(y) \/ Len(x) = 0 \/ IsConstant(x) \/ IsConstant(y))
                => result.value = DZero
        /\ DLe(DNum(-1), result.value)
        /\ DLe(result.value, DNum(1))

\* C11: for every non-constant sequence x, calculateCorrelation(x, x) is 1.
C11_SelfCorrelation ==
    (result.op = "calculateCorrelation" /\ x = y /\ ~IsConstant(x)) =>
        result.value = DNum(1)

\* C12: for every non-empty list of values, calculateStats returns
\* min <= average <= max, min being the smallest and max the largest element
\* of the input.
C12_StatsOrdered ==
    (result.op = "calculateStats" /\ Len(values) > 0) =>
        /\ DLe(result.value.min, result.value.average)
        /\ DLe(result.value.average, result.value.max)
        /\ \E i \in 1..Len(values) : result.value.min = values[i]
        /\ \E i \in 1..Len(values) : result.value.max = values[i]
        /\ \A i \in 1..Len(values) :
                DLe(result.value.min, values[i]) /\ DLe(values[i], result.value.max)


(***************************************************************************)
(* Network impact of one flight.                                           *)
(***************************************************************************)
QualityValues ==
    {Undefined} \cup {Num(q) : q \in {0, 49, 50, 69, 70, 89, 90, 100}}

NetworkSamples ==
    {Sample(<<0, 0, 0>>, es[1], "transit", es[2], q) :
        es \in {<<Rat(2, 100), TRUE>>, <<Rat(20, 100), FALSE>>},
        q \in QualityValues}

\* long flights in which about a tenth of the samples has a poor network:
\* poor samples of quality 1 followed by excellent ones of quality 100
BulkNetworkLists ==
    {[i \in 1..total |->
        Sample(<<0, 0, 0>>, Zero, "transit", TRUE, IF i <= poor THEN Num(1) ELSE Num(100))] :
        <<poor, total>> \in {pt \in (1..MaxBulkPoor) \X (1..(10 * MaxBulkPoor + 1)) :
            pt[2] - 10 * pt[1] \in {-1, 0, 1}}}

InitNetwork ==
    /\ positions \in SeqUpTo(NetworkSamples, MaxNetSamples) \cup BulkNetworkLists
    /\ sequence = NoSequence
    /\ values = <<>>
    /\ x = <<>>
    /\ y = <<>>
    /\ dataPoints = <<>>
    /\ comparisons = <<>>
    /\ flights = <<>>
    /\ result = NoResult
    /\ WebIdle

AnalyzeNetworkImpact ==
    /\ result.op = "none"
    /\ result' = Returned("analyzeNetworkImpact", analyzeNetworkImpact(positions))
    /\ UNCHANGED <<positions, sequence, values, x, y, dataPoints, comparisons, flights, webVars>>

NextNetwork == AnalyzeNetworkImpact

SpecNetwork == InitNetwork /\ [][NextNetwork]_vars

Buckets == {"excellent", "good", "fair", "poor"}

\* the count reported for bucket b, an omitted bucket counting as 0
ReportedCount(b) ==
    IF b \in DOMAIN result.value.segmentAnalysis
    THEN result.value.segmentAnalysis[b].count
    ELSE 0

\* the bucket of the thresholds poor < 50 <= fair < 70 <= good < 90 <= excellent
\* for a quality q that is present, and excellent for an absent quality
BucketOf(p) ==
    IF p.networkQuality = Undefined THEN "excellent"
    ELSE IF p.networkQuality.n < 50 * p.networkQuality.d THEN "poor"
    ELSE IF p.networkQuality.n < 70 * p.networkQuality.d THEN "fair"
    ELSE IF p.networkQuality.n < 90 * p.networkQuality.d THEN "good"
    ELSE "excellent"

\* C6: every sample with a networkQuality q in [0, 100] is counted in poor iff
\* q < 50, fair iff 50 <= q < 70, good iff 70 <= q < 90, excellent iff
\* q >= 90; only a sample without networkQuality is treated as quality 100.
C6_BucketThresholds ==
    result.op = "analyzeNetworkImpact" =>
        \A b \in Buckets :
            ReportedCount(b) =
                Cardinality({i \in 1..Len(positions) : BucketOf(positions[i]) = b})

\* C7: the counts of segmentAnalysis (an omitted bucket counting as 0) sum to
\* the number of samples, and a bucket appears in segmentAnalysis iff it
\* holds at least one sample.
C7_BucketPartition ==
    result.op = "analyzeNetworkImpact" =>
        /\ DOMAIN result.value.segmentAnalysis \subseteq Buckets
        /\ ReportedCount("excellent") + ReportedCount("good")
                + ReportedCount("fair") + ReportedCount("poor") = Len(positions)
        /\ \A b \in Buckets :
            /\ ReportedCount(b) =
                Cardinality({i \in 1..Len(positions) :
                    LET q == Quality(positions[i])
                    IN  CASE b = "poor" -> Lt(q, Num(50))
                          [] b = "fair" -> Le(Num(50), q) /\ Lt(q, Num(70))
                          [] b = "good" -> Le(Num(70), q) /\ Lt(q, Num(90))
                          [] OTHER -> Le(Num(90), q)})
            /\ b \in DOMAIN result.value.segmentAnalysis <=> ReportedCount(b) > 0

\* two samples in two different buckets, a third bucket being omitted
C7_Witness ==
    /\ result.op = "analyzeNetworkImpact"
    /\ Len(positions) = 2
    /\ ReportedCount("good") = 1
    /\ ReportedCount("poor") = 1
    /\ "fair" \notin DOMAIN result.value.segmentAnalysis

\* C15: analyzeNetworkImpact returns a priority 'high' recommendation iff the
\* samples of the poor bucket are more than 10% of all samples, decided on
\* the sample counts.
C15_PoorRecommendation ==
    result.op = "analyzeNetworkImpact" =>
        ((\E k \in 1..Len(result.value.recommendations) :
                result.value.recommendations[k].priority = "high")
            <=> 10 * ReportedCount("poor") > Len(positions))


(***************************************************************************)
(* Cross-flight analytics.                                                 *)
(***************************************************************************)
MetricValues == {Num(v) : v \in {0, 10, 11, 20, 21, 22, 23}}

TrendPoints == {[date |-> 0, value |-> v] : v \in MetricValues}

\* the metrics of a compared flight
Metrics(stability, efficiency, avgError, correlation) ==
    [overallStabilityScore |-> stability, efficiencyRatio |-> efficiency,
     pathSmoothness |-> Rat(9, 10), networkCorrelation |-> correlation,
     averageError |-> avgError]

MetricsSet ==
    {Metrics(Num(90), Rat(85, 100), Rat(2, 100), Zero),
     Metrics(Num(90), Num(1), Rat(2, 10), Rat(-1, 2)),
     Metrics(Num(60), Num(1), Rat(2, 100), Rat(-1, 2)),
     Metrics(Num(60), Rat(85, 100), Rat(2, 10), Zero)}

\* a stored flight as the cross-flight helpers read it
Flight(id, day, avgError, voltage) ==
    [flightId |-> id, createdAt |-> day,
     analysis |->
        [positionAccuracy |->
            [overall |-> [average |-> avgError], waypoint |-> [percentage |-> Num(50)]],
         responseTime |-> Num(12),
         battery |-> [startVoltage |-> voltage]]]

\* 2025-05-14 (a Wednesday) and days of the same week, the next week and the next month
FlightDays == {20222, 20223, 20226, 20253}

FlightKinds ==
    {<<Rat(5, 100), Num(4)>>, <<Rat(2, 10), Num(4)>>, <<Rat(2, 10), Rat(38, 10)>>,
     <<Rat(1, 10), Undefined>>}

\* flight lists in the order of their creation
FlightLists ==
    UNION {{[i \in 1..Len(ds) |-> Flight(i, ds[i], ks[i][1], ks[i][2])] :
                ks \in [1..Len(ds) -> FlightKinds]} :
            ds \in {d \in SeqUpTo(FlightDays, MaxFlights) :
                        \A i \in 1..(Len(d) - 1) : d[i] <= d[i + 1]}}

\* flights of one day whose average error is 0.1 or 0.2
BulkKinds == {Rat(1, 10), Rat(2, 10)}

BulkFlightLists ==
    {[i \in 1..Len(es) |-> Flight(i, 20222, es[i], Num(4))] :
        es \in SeqUpTo(BulkKinds, MaxBulkFlights)}

InitCrossFlight ==
    /\ \/ /\ dataPoints \in SeqUpTo(TrendPoints, MaxPoints)
          /\ comparisons = <<>>
          /\ flights = <<>>
       \/ /\ dataPoints = <<>>
          /\ comparisons \in
                {[i \in 1..Len(ms) |-> [flightId |-> i, metrics |-> ms[i]]] :
                    ms \in SeqUpTo(MetricsSet, MaxFlights)}
          /\ flights = <<>>
       \/ /\ dataPoints = <<>>
          /\ comparisons = <<>>
          /\ flights \in FlightLists \cup BulkFlightLists
    /\ positions = <<>>
    /\ sequence = NoSequence
    /\ values = <<>>
    /\ x = <<>>
    /\ y = <<>>
    /\ result = NoResult
    /\ WebIdle

GenerateComparativeInsights ==
    /\ result.op = "none"
    /\ result' = IF generateComparativeInsightsThrows(comparisons)
                 THEN Threw("generateComparativeInsights")
                 ELSE Returned("generateComparativeInsights",
                               generateComparativeInsights(comparisons))
    /\ UNCHANGED <<positions, sequence, values, x, y, dataPoints, comparisons, flights, webVars>>

GenerateComparisonSummary ==
    /\ result.op = "none"
    /\ result' = Returned("generateComparisonSummary", generateComparisonSummary(comparisons))
    /\ UNCHANGED <<positions, sequence, values, x, y, dataPoints, comparisons, flights, webVars>>

CalculateTrendDirection ==
    /\ result.op = "none"
    /\ result' = Returned("calculateTrendDirection", calculateTrendDirection(dataPoints))
    /\ UNCHANGED <<positions, sequence, values, x, y, dataPoints, comparisons, flights, webVars>>

CalculateTrendSummary ==
    /\ result.op = "none"
    /\ result' = Returned("calculateTrendSummary", calculateTrendSummary(dataPoints))
    /\ UNCHANGED <<positions, sequence, values, x, y, dataPoints, comparisons, flights, webVars>>

IdentifyCommonIssues ==
    /\ result.op = "none"
    /\ result' = Returned("identifyCommonIssues", identifyCommonIssues(flights))
    /\ UNCHANGED <<positions, sequence, values, x, y, dataPoints, comparisons, flights, webVars>>

GeneratePerformanceTrends ==
    /\ result.op = "none"
    /\ \E metric \in {"accuracy", "stability", "response_time"},
          period \in {"daily", "weekly", "monthly"} :
            result' = [op |-> "generatePerformanceTrends", threw |-> FALSE,
                       value |-> generatePerformanceTrends(flights, metric, period),
                       metric |-> metric, period |-> period]
    /\ UNCHANGED <<positions, sequence, values, x, y, dataPoints, comparisons, flights, webVars>>

\* FlightData.find(...).sort({ createdAt: -1 }) on flights kept in the order of
\* their creation
NewestFirst(fls) == [i \in 1..Len(fls) |-> fls[Len(fls) + 1 - i]]

\* GET /patterns, from the query on: the flights of the user, newest first
GetPatterns ==
    /\ result.op = "none"
    /\ result' =
        [op |-> "GET /patterns", threw |-> FALSE, flights |-> NewestFirst(flights),
         value |->
            IF Len(flights) = 0
            THEN [trends |-> <<>>,
                  insights |-> <<"No flight data available in the selected time range">>,
                  recommendations |-> <<>>]
            ELSE analyzeFlightPatterns(NewestFirst(flights))]
    /\ UNCHANGED <<positions, sequence, values, x, y, dataPoints, comparisons, flights, webVars>>

\* GET /performance-trends, from the query on: the flights of the user,
\* oldest first
GetPerformanceTrends ==
    /\ result.op = "none"
    /\ \E metric \in {"accuracy", "stability", "response_time"},
          period \in {"daily", "weekly", "monthly"} :
            result' =
                [op |-> "GET /performance-trends", threw |-> FALSE,
                 metric |-> metric, period |-> period,
                 value |->
                    IF Len(flights) = 0
                    THEN [trends |-> <<>>, summary |-> [message |-> "No flight data available"]]
                    ELSE [trends |-> generatePerformanceTrends(flights, metric, period),
                          summary |-> calculateTrendSummary(
                                        generatePerformanceTrends(flights, metric, period))]]
    /\ UNCHANGED <<positions, sequence, values, x, y, dataPoints, comparisons, flights, webVars>>

NextCrossFlight ==
    \/ GetPatterns
    \/ GetPerformanceTrends
    \/ GenerateComparativeInsights
    \/ GenerateComparisonSummary
    \/ CalculateTrendDirection
    \/ CalculateTrendSummary
    \/ IdentifyCommonIssues
    \/ GeneratePerformanceTrends

SpecCrossFlight == InitCrossFlight /\ [][NextCrossFlight]_vars


(***************************************************************************)
(* Properties of the trend direction.  The metric values of the series are *)
(* non-negative integers here, and the two half means are compared exactly *)
(* by cross-multiplication.                                                *)
(***************************************************************************)
\* the sum of the integer values of the points lo..hi of the series
RECURSIVE ValueSum(_, _)
ValueSum(lo, hi) ==
    IF lo > hi THEN 0 ELSE dataPoints[hi].value.n + ValueSum(lo, hi - 1)

FirstHalfCount == Len(dataPoints) \div 2
SecondHalfCount == Len(dataPoints) - FirstHalfCount
FirstHalfSum == ValueSum(1, FirstHalfCount)
SecondHalfSum == ValueSum(FirstHalfCount + 1, Len(dataPoints))

\* secondMean - firstMean > firstMean / 10
RisesMoreThanTenPercent ==
    10 * SecondHalfSum * FirstHalfCount > 11 * FirstHalfSum * SecondHalfCount

\* firstMean - secondMean > firstMean / 10
FallsMoreThanTenPercent ==
    10 * SecondHalfSum * FirstHalfCount < 9 * FirstHalfSum * SecondHalfCount

StrictlyIncreasing ==
    \A i \in 1..(Len(dataPoints) - 1) : dataPoints[i].value.n < dataPoints[i + 1].value.n

\* C3 as stated: every strictly increasing series of length at least 4 is
\* labelled 'improving'.
C3_IncreasingIsImproving ==
    (result.op = "calculateTrendDirection" /\ Len(dataPoints) >= 4 /\ StrictlyIncreasing)
        => result.value = "improving"

\* C3 amended: a strictly increasing series of length at least 4 is labelled
\* 'improving' when its second-half mean exceeds its first-half mean by more
\* than 10% and 'stable' otherwise; it is never labelled 'declining'.
C3_IncreasingNeverDeclining ==
    (result.op = "calculateTrendDirection" /\ Len(dataPoints) >= 4 /\ StrictlyIncreasing)
        => /\ RisesMoreThanTenPercent => result.value = "improving"
           /\ ~RisesMoreThanTenPercent => result.value = "stable"

\* a strictly increasing series of length 4 that rises by less than 10%
C3_Witness ==
    /\ result.op = "calculateTrendDirection"
    /\ Len(dataPoints) = 4
    /\ StrictlyIncreasing
    /\ ~RisesMoreThanTenPercent
    /\ result.value = "stable"

C9_EmptyCollections ==
    (dataPoints = <<>> /\ comparisons = <<>> /\ flights = <<>>) =>
        /\ ~result.threw
        /\ result.op = "generateComparativeInsights" => result.value = <<>>
        /\ result.op = "generateComparisonSummary" =>
                /\ result.value.averageStability.text # NaN
                /\ result.value.averageEfficiency.text # NaN
                /\ result.value.averageAccuracy.text # NaN
                /\ result.value.averageSmoothness.text # NaN
        /\ result.op = "calculateTrendDirection" => result.value = "insufficient_data"
        /\ result.op = "generatePerformanceTrends" => result.value = <<>>
        /\ result.op = "calculateTrendSummary" =>
                result.value = [message |-> "Insufficient data for trend analysis"]
        /\ result.op = "identifyCommonIssues" => result.value = <<>>

\* the value by which the insight of the given type ranks comparison i, larger
\* being better
Rank(type, i) ==
    CASE type = "best_stability" -> comparisons[i].metrics.overallStabilityScore
      [] type = "best_efficiency" -> comparisons[i].metrics.efficiencyRatio
      [] OTHER -> Neg(comparisons[i].metrics.averageError)

\* the first position in input order that holds the best value
FirstBest(type) ==
    CHOOSE i \in 1..Len(comparisons) :
        /\ \A j \in 1..Len(comparisons) : Le(Rank(type, j), Rank(type, i))
        /\ \A j \in 1..(i - 1) : Lt(Rank(type, j), Rank(type, i))

\* the flight named by the insight of the given type
NamedFlight(type) ==
    LET S == {k \in 1..Len(result.value) : result.value[k].type = type}
    IN  result.value[CHOOSE k \in S : TRUE].flightId

\* C13: for every non-empty list of compared flights, best_stability names
\* the flight with the maximum overallStabilityScore, best_efficiency the one
\* with the maximum efficiencyRatio and best_accuracy the one with the
\* minimum averageError; among flights that tie for the best value the first
\* in input order is named.
C13_BestFlights ==
    (result.op = "generateComparativeInsights" /\ Len(comparisons) > 0) =>
        /\ ~result.threw
        /\ \A type \in {"best_stability", "best_efficiency", "best_accuracy"} :
            /\ Cardinality({k \in 1..Len(result.value) : result.value[k].type = type}) = 1
            /\ NamedFlight(type) = comparisons[FirstBest(type)].flightId

\* three flights, the second and the third tie for the best stability and the
\* first and the third for the best accuracy
C13_Witness ==
    /\ result.op = "generateComparativeInsights"
    /\ Len(comparisons) = 3
    /\ Lt(comparisons[1].metrics.overallStabilityScore,
          comparisons[2].metrics.overallStabilityScore)
    /\ comparisons[2].metrics.overallStabilityScore
            = comparisons[3].metrics.overallStabilityScore
    /\ Lt(comparisons[1].metrics.averageError, comparisons[2].metrics.averageError)
    /\ comparisons[1].metrics.averageError = comparisons[3].metrics.averageError
    /\ NamedFlight("best_stability") = comparisons[2].flightId
    /\ NamedFlight("best_accuracy") = comparisons[1].flightId

HighErrorMessage == "More than 50% of flights show high positioning errors (>10cm)"

\* the number of flights whose average error is above 0.1
HighErrorCount ==
    Cardinality({i \in 1..Len(flights) :
        LET e == flights[i].analysis.positionAccuracy.overall.average
        IN  e.k = "fin" /\ e.n * 10 > e.d})

\* C14: identifyCommonIssues includes the high positioning error message iff
\* the flights whose average error is strictly greater than 0.1 are strictly
\* more than half of the flights.
C14_HighErrorMajority ==
    result.op = "identifyCommonIssues" =>
        ((\E k \in 1..Len(result.value) : result.value[k] = HighErrorMessage)
            <=> 2 * HighErrorCount > Len(flights))

\* 10 flights of which 6 have a high average error: the message is included
C14_Witness ==
    /\ result.op = "identifyCommonIssues"
    /\ Len(flights) = 10
    /\ HighErrorCount = 6
    /\ \E k \in 1..Len(result.value) : result.value[k] = HighErrorMessage

\* 10 flights of which 5 have a high average error: the message is left out
C14_WitnessHalf ==
    /\ result.op = "identifyCommonIssues"
    /\ Len(flights) = 10
    /\ HighErrorCount = 5
    /\ \A k \in 1..Len(result.value) : result.value[k] # HighErrorMessage

(***************************************************************************)
(* models/UAVDataProcessor.js: validation and processing of an upload.     *)
(* An uploaded document is null or an object; its timestamp is a string,   *)
(* "" when absent; its position_data is absent, a string or an array; a    *)
(* point of the array is null or an object whose absent fields are         *)
(* undefined.                                                              *)
(***************************************************************************)
Invalid(message) == [valid |-> FALSE, error |-> message]

validateFlightData(data) ==
    IF data.type = "null" THEN Invalid("Data format error")
    ELSE IF data.timestamp = "" THEN Invalid("Missing required field: timestamp")
    ELSE IF data.position_data.type = "absent"
    THEN Invalid("Missing required field: position_data")
    ELSE IF data.position_data.type # "array" \/ Len(data.position_data.items) = 0
    THEN Invalid("Position data must be a non-empty array")
    ELSE LET firstPoint == data.position_data.items[1]
         IN  IF firstPoint.null THEN Invalid("Data format error")
             ELSE IF firstPoint.fields.x = Undefined
             THEN Invalid("Missing field 'x' in position data")
             ELSE IF firstPoint.fields.y = Undefined
             THEN Invalid("Missing field 'y' in position data")
             ELSE IF firstPoint.fields.z = Undefined
             THEN Invalid("Missing field 'z' in position data")
             ELSE IF firstPoint.fields.time = Undefined
             THEN Invalid("Missing field 'time' in position data")
             ELSE [valid |-> TRUE, error |-> ""]

\* Math.round
MathRound(v0) ==
    LET v == ToNumber(v0)
    IN  IF v.k # "fin" THEN v ELSE Num(FloorInt(Add(v, Rat(1, 2))))

assignQualityGrade(score) ==
    IF Ge(score, Num(90)) THEN "A"
    ELSE IF Ge(score, Num(80)) THEN "B"
    ELSE IF Ge(score, Num(70)) THEN "C"
    ELSE IF Ge(score, Num(60)) THEN "D"
    ELSE "F"

calculateSimpleQualityScore(analysis) ==
    LET avgError == analysis.positionAccuracy.overall.average
        accuracyScore ==
            MathMin(Num(100), MathMax(Zero, Sub(Num(100), Mul(avgError, Num(1000)))))
    IN  [overallScore |-> MathRound(accuracyScore),
         breakdown |-> [accuracy |-> MathRound(accuracyScore)],
         grade |-> assignQualityGrade(accuracyScore)]

\* the report generateTrajectoryReport builds from the analysis
TrajectoryReport(analysis) ==
    [summary |->
        [averageAccuracy |-> Text(ToFixed(analysis.pathAccuracy.averageError, 4), ""),
         maxError |-> Text(ToFixed(analysis.pathAccuracy.maxError, 4), ""),
         totalPoints |-> analysis.basicStats.totalPoints,
         stabilizationRate |->
            Text(ToFixed(Mul(analysis.stabilityMetrics.stabilizationRatio, Num(100)), 1), "%"),
         efficiencyRatio |->
            Text(ToFixed(Mul(analysis.trajectoryEfficiency.efficiencyRatio, Num(100)), 1), "%")],
     detailed |-> analysis]

\* const analysis = this.analyzeTrajectory(flightData), evaluated once
generateTrajectoryReport(flightData) ==
    CHOOSE report \in {TrajectoryReport(analysis) : analysis \in {analyzeTrajectory(flightData)}} :
        TRUE

\* position_data.map(point => ...) reads point.x and raises on a null point
processFlightDataThrows(jsonData) ==
    \E i \in 1..Len(jsonData.position_data.items) : jsonData.position_data.items[i].null

\* the points of the document as the engine reads them
PointFields(jsonData) ==
    [i \in 1..Len(jsonData.position_data.items) |-> jsonData.position_data.items[i].fields]

\* processedPositions of processFlightData
ProcessedPositions(jsonData) ==
    [i \in 1..Len(jsonData.position_data.items) |->
        LET point == jsonData.position_data.items[i].fields
        IN  [x |-> point.x, y |-> point.y, z |-> point.z, time |-> point.time,
             error |-> OrElse(point.error, Zero),
             phase |-> IF point.phase = "" THEN "transit" ELSE point.phase]]

\* the object processFlightData returns, given its intermediate results
ProcessedFlight(jsonData, metadata, processedPositions, basicAnalysis, trajectoryReport) ==
    [flightName |->
        IF metadata.flightName # "" THEN metadata.flightName
        ELSE "Flight_" \o jsonData.timestamp,
     timestamp |-> jsonData.timestamp,
     sequence |-> jsonData.sequence.items,
     positionData |-> processedPositions,
     analysis |-> basicAnalysis,
     trajectoryAnalysis |-> trajectoryReport,
     performanceMetrics |-> [communicationEfficiency |-> [reliability |-> Num(95)]],
     networkAnalysis |-> [impactAssessment |-> [performanceImpact |-> Num(5)]],
     qualityAssessment |-> calculateSimpleQualityScore(basicAnalysis)]

\* the constants processedPositions, basicAnalysis and trajectoryReport are
\* evaluated once each
processFlightData(jsonData, metadata) ==
    CHOOSE processedData \in
        {ProcessedFlight(jsonData, metadata, processedPositions, basicAnalysis, trajectoryReport) :
            processedPositions \in {ProcessedPositions(jsonData)},
            basicAnalysis \in {calculateBasicAnalysis(ProcessedPositions(jsonData))},
            trajectoryReport \in {generateTrajectoryReport(
                [position_data |-> PointFields(jsonData), sequence |-> jsonData.sequence])}} :
        TRUE

(***************************************************************************)
(* controllers/FlightController.js: uploadFlightData, one step per         *)
(* statement that touches the file, the database or the response.          *)
(***************************************************************************)
\* the engine at rest
EngineIdle ==
    /\ positions = <<>>
    /\ sequence = NoSequence
    /\ values = <<>>
    /\ x = <<>>
    /\ y = <<>>
    /\ dataPoints = <<>>
    /\ comparisons = <<>>
    /\ flights = <<>>
    /\ result = NoResult

NoResponse == [status |-> 0]

Respond(code, ok, text) == [status |-> code, success |-> ok, message |-> text]

\* a point of an upload: an object with the given fields, or null
PointObject(fields) == [null |-> FALSE, fields |-> fields]

NullPoint == [null |-> TRUE, fields |-> Sample(<<0, 0, 0>>, Undefined, "", FALSE, Undefined)]

CompletePoints ==
    {PointObject(Sample(<<0, 0, 0>>, Rat(5, 100), "waypoint", TRUE, Num(80))),
     PointObject(Sample(<<1, 0, 0>>, Undefined, "", FALSE, Undefined))}

IncompletePoints ==
    {PointObject([Sample(<<1, 0, 0>>, Rat(5, 100), "transit", TRUE, Num(80)) EXCEPT ![f] = Undefined]) :
        f \in {"x", "y", "z", "time"}}

UploadPoints == CompletePoints \cup IncompletePoints \cup {NullPoint}

PositionData(kind, points) == [type |-> kind, items |-> points]

Document(ts, pd) ==
    [type |-> "object", timestamp |-> ts, position_data |-> pd, sequence |-> NoSequence]

NullDocument == [Document("", PositionData("absent", <<>>)) EXCEPT !.type = "null"]

UploadDocuments ==
    {NullDocument} \cup
    {Document(ts, pd) :
        ts \in {"", "20250514_104755"},
        pd \in {PositionData("absent", <<>>), PositionData("string", <<>>)}
                \cup {PositionData("array", pts) : pts \in SeqUpTo(UploadPoints, MaxUploadPoints)}}

\* the upload requests that passed authenticateToken: without a file, with a
\* file that is not JSON, or with a JSON document
UploadRequests ==
    {[kind |-> "upload", file |-> FALSE, path |-> "", json |-> FALSE,
      content |-> NullDocument, flightName |-> "", userId |-> "u1",
      processedPositions |-> <<>>, basicAnalysis |-> NoResult, detailed |-> NoResult]}
    \cup
    {[kind |-> "upload", file |-> TRUE, path |-> "uploads/flight-1.json", json |-> FALSE,
      content |-> NullDocument, flightName |-> "", userId |-> "u1",
      processedPositions |-> <<>>, basicAnalysis |-> NoResult, detailed |-> NoResult]}
    \cup
    {[kind |-> "upload", file |-> TRUE, path |-> "uploads/flight-1.json", json |-> TRUE,
      content |-> doc, flightName |-> name, userId |-> "u1",
      processedPositions |-> <<>>, basicAnalysis |-> NoResult, detailed |-> NoResult] :
        doc \in UploadDocuments, name \in {"", "Survey"}}

InitUpload ==
    /\ EngineIdle
    /\ WebIdle

\* upload.single('flightData'): multer writes the file of the request, if
\* any, to uploads/ before the handler runs
ReceiveUpload ==
    /\ pc = "idle"
    /\ \E r \in UploadRequests :
        /\ req' = r
        /\ uploads' = IF r.file THEN uploads \cup {r.path} ELSE uploads
        /\ UNCHANGED <<User, registrations>>
    /\ pc' = "start"
    /\ UNCHANGED <<FlightData, AnalysisReport, mockUsers, mockFlights, response, analyses, emitted>>
    /\ UNCHANGED <<positions, sequence, values, x, y, dataPoints, comparisons, flights, result>>

\* if (!req.file) return res.status(400)
UploadCheckFile ==
    /\ pc = "start"
    /\ IF ~req.file
       THEN /\ response' = Respond(400, FALSE, "No file uploaded")
            /\ pc' = "done"
       ELSE /\ pc' = "read"
            /\ UNCHANGED response
    /\ UNCHANGED <<FlightData, AnalysisReport, mockUsers, mockFlights, uploads, User, registrations, req, analyses, emitted>>
    /\ UNCHANGED <<positions, sequence, values, x, y, dataPoints, comparisons, flights, result>>

\* JSON.parse(fs.readFileSync(filePath)) and validateFlightData
UploadValidate ==
    /\ pc = "read"
    /\ pc' = IF ~req.json THEN "catch"
             ELSE IF validateFlightData(req.content).valid THEN "process"
             ELSE "reject"
    /\ UNCHANGED <<FlightData, AnalysisReport, mockUsers, mockFlights, uploads, User, registrations, req, response,
                   analyses, emitted>>
    /\ UNCHANGED <<positions, sequence, values, x, y, dataPoints, comparisons, flights, result>>

\* uploadFlightData leaving the file of a rejected upload in place
UploadRejectKeepsFile ==
    /\ pc = "reject"
    /\ pc' = "reject_respond"
    /\ UNCHANGED <<FlightData, AnalysisReport, mockUsers, mockFlights, uploads, User, registrations, req, response,
                   analyses, emitted>>
    /\ UNCHANGED <<positions, sequence, values, x, y, dataPoints, comparisons, flights, result>>

\* fs.unlinkSync(filePath) of a rejected upload
UploadRejectUnlink ==
    /\ pc = "reject"
    /\ uploads' = uploads \ {req.path}
    /\ UNCHANGED <<User, registrations>>
    /\ pc' = "reject_respond"
    /\ UNCHANGED <<FlightData, AnalysisReport, mockUsers, mockFlights, req, response,
                   analyses, emitted>>
    /\ UNCHANGED <<positions, sequence, values, x, y, dataPoints, comparisons, flights, result>>

\* res.status(400).json({ success: false, message: validation.error })
UploadRejectRespond ==
    /\ pc = "reject_respond"
    /\ response' = Respond(400, FALSE, validateFlightData(req.content).error)
    /\ pc' = "done"
    /\ UNCHANGED <<FlightData, AnalysisReport, mockUsers, mockFlights, uploads, User, registrations, req,
                   analyses, emitted>>
    /\ UNCHANGED <<positions, sequence, values, x, y, dataPoints, comparisons, flights, result>>

\* processFlightData: processedPositions, or a TypeError on a null point
UploadProcessPositions ==
    /\ pc = "process"
    /\ IF processFlightDataThrows(req.content)
       THEN /\ pc' = "catch"
            /\ UNCHANGED req
       ELSE /\ pc' = "analyse"
            /\ req' = [req EXCEPT !.processedPositions = ProcessedPositions(req.content)]
    /\ UNCHANGED <<FlightData, AnalysisReport, mockUsers, mockFlights, uploads, User, registrations, response,
                   analyses, emitted>>
    /\ UNCHANGED <<positions, sequence, values, x, y, dataPoints, comparisons, flights, result>>

\* processFlightData: calculateBasicAnalysis(processedPositions) and the
\* analysis of generateTrajectoryReport(jsonData)
UploadAnalyse ==
    /\ pc = "analyse"
    /\ req' = [req EXCEPT
                !.basicAnalysis = calculateBasicAnalysis(req.processedPositions),
                !.detailed = analyzeTrajectory([position_data |-> PointFields(req.content),
                                                sequence |-> req.content.sequence])]
    /\ pc' = "save"
    /\ UNCHANGED <<FlightData, AnalysisReport, mockUsers, mockFlights, uploads, User, registrations, response,
                   analyses, emitted>>
    /\ UNCHANGED <<positions, sequence, values, x, y, dataPoints, comparisons, flights, result>>

\* new FlightData({ userId, ...processedData }) and await flightData.save():
\* the record is stored, or the database raises
UploadSave ==
    /\ pc = "save"
    /\ \/ /\ FlightData' = FlightData \cup
                {[_id |-> Cardinality(FlightData) + 1,
                  userId |-> req.userId,
                  data |-> ProcessedFlight(req.content, [flightName |-> req.flightName],
                                req.processedPositions, req.basicAnalysis,
                                TrajectoryReport(req.detailed))]}
          /\ pc' = "unlink"
       \/ /\ pc' = "catch"
          /\ UNCHANGED FlightData
    /\ UNCHANGED <<AnalysisReport, mockUsers, mockFlights, uploads, User, registrations, req, response,
                   analyses, emitted>>
    /\ UNCHANGED <<positions, sequence, values, x, y, dataPoints, comparisons, flights, result>>

\* fs.unlinkSync(filePath) after the save
UploadUnlink ==
    /\ pc = "unlink"
    /\ uploads' = uploads \ {req.path}
    /\ UNCHANGED <<User, registrations>>
    /\ pc' = "respond"
    /\ UNCHANGED <<FlightData, AnalysisReport, mockUsers, mockFlights, req, response,
                   analyses, emitted>>
    /\ UNCHANGED <<positions, sequence, values, x, y, dataPoints, comparisons, flights, result>>

\* res.json({ success: true, ... })
UploadRespond ==
    /\ pc = "respond"
    /\ response' = Respond(200, TRUE, "Flight data uploaded and analyzed successfully")
    /\ pc' = "done"
    /\ UNCHANGED <<FlightData, AnalysisReport, mockUsers, mockFlights, uploads, User, registrations, req,
                   analyses, emitted>>
    /\ UNCHANGED <<positions, sequence, values, x, y, dataPoints, comparisons, flights, result>>

\* catch: if (req.file && fs.existsSync(req.file.path)) fs.unlinkSync(req.file.path)
UploadCatchUnlink ==
    /\ pc = "catch"
    /\ uploads' = IF req.file /\ req.path \in uploads THEN uploads \ {req.path} ELSE uploads
    /\ UNCHANGED <<User, registrations>>
    /\ pc' = "catch_respond"
    /\ UNCHANGED <<FlightData, AnalysisReport, mockUsers, mockFlights, req, response,
                   analyses, emitted>>
    /\ UNCHANGED <<positions, sequence, values, x, y, dataPoints, comparisons, flights, result>>

\* catch: res.status(500)
UploadCatchRespond ==
    /\ pc = "catch_respond"
    /\ response' = Respond(500, FALSE, "Upload processing failed")
    /\ pc' = "done"
    /\ UNCHANGED <<FlightData, AnalysisReport, mockUsers, mockFlights, uploads, User, registrations, req,
                   analyses, emitted>>
    /\ UNCHANGED <<positions, sequence, values, x, y, dataPoints, comparisons, flights, result>>

NextUpload ==
    \/ ReceiveUpload
    \/ UploadCheckFile
    \/ UploadValidate
    \/ UploadRejectUnlink
    \/ UploadRejectRespond
    \/ UploadProcessPositions
    \/ UploadAnalyse
    \/ UploadSave
    \/ UploadUnlink
    \/ UploadRespond
    \/ UploadCatchUnlink
    \/ UploadCatchRespond

SpecUpload == InitUpload /\ [][NextUpload]_vars


\* the upload of the request is a JSON document that validateFlightData accepts
UploadAccepted ==
    /\ req.kind = "upload"
    /\ req.file
    /\ req.json
    /\ validateFlightData(req.content).valid

\* the upload of the request is a JSON document that validateFlightData rejects
ValidationFailed ==
    /\ req.kind = "upload"
    /\ req.file
    /\ req.json
    /\ ~validateFlightData(req.content).valid

\* every sample of the document is an object with x, y, z and time
EverySampleComplete(data) ==
    /\ data.type = "object"
    /\ data.position_data.type = "array"
    /\ Len(data.position_data.items) > 0
    /\ \A i \in 1..Len(data.position_data.items) :
        /\ ~data.position_data.items[i].null
        /\ \A f \in {"x", "y", "z", "time"} :
            data.position_data.items[i].fields[f] # Undefined

\* C16: validateFlightData accepts an upload only when its position_data is a
\* non-empty array in which every sample has x, y, z and time, so that no
\* upload with an incomplete sample reaches processFlightData.
C16_EverySampleChecked ==
    /\ UploadAccepted => EverySampleComplete(req.content)
    /\ (req.kind = "upload" /\ pc \in {"process", "analyse", "save"})
            => EverySampleComplete(req.content)

\* C17: a rejected upload is answered 400 with the validation error and stores
\* no record; whenever a response to an upload with a file has been sent, the
\* temporary file is gone; a record is stored only by an upload that goes on to
\* the success response.
C17_UploadOutcomes ==
    /\ ValidationFailed => FlightData = {}
    /\ (ValidationFailed /\ pc = "done")
            => response = Respond(400, FALSE, validateFlightData(req.content).error)
    /\ (req.kind = "upload" /\ req.file /\ pc = "done") => req.path \notin uploads
    /\ FlightData # {} =>
            /\ UploadAccepted
            /\ pc \in {"unlink", "respond", "done"}
            /\ pc = "done" => response.status = 200 /\ response.success
    /\ (req.kind = "upload" /\ pc = "done" /\ response.status # 200) => FlightData = {}

\* a rejected upload after its response: 400 with the validation error, the
\* temporary file deleted, nothing stored
C17_Witness ==
    /\ ValidationFailed
    /\ pc = "done"
    /\ response = Respond(400, FALSE, "Missing required field: position_data")
    /\ uploads = {}
    /\ User = {}
    /\ registrations = <<>>
    /\ FlightData = {}

\* an upload that failed in the database after its response: 500, the
\* temporary file deleted, nothing stored
C17_WitnessError ==
    /\ UploadAccepted
    /\ req.basicAnalysis # NoResult
    /\ pc = "done"
    /\ response.status = 500
    /\ uploads = {}
    /\ User = {}
    /\ registrations = <<>>
    /\ FlightData = {}


(***************************************************************************)
(* server.js, middleware/auth.js, routes/flights.js: the HTTP endpoints    *)
(* under /api/.  A request carries no token, a token that jwt.verify       *)
(* rejects, or a token signed for a user.  A field that a request body     *)
(* does not have is Missing.  The list endpoints are called without the    *)
(* search text q.                                                          *)
(***************************************************************************)
UserIds == {"u1", "u2"}

Tokens == {"none", "invalid"} \cup UserIds

Missing == "(undefined)"

\* a flight sample at (px, 0, 0) taken at time t
FlightPoint(px, t) ==
    PointObject([Sample(<<px, 0, 0>>, Rat(5, 100), "waypoint", TRUE, Num(80))
                    EXCEPT !.time = Num(t)])

SurveyDocument ==
    Document("20250514_104755", PositionData("array", <<FlightPoint(0, 0), FlightPoint(1, 2)>>))

\* the document stored by an upload of doc by user
StoredFlight(id, user, name, doc) ==
    [_id |-> id, userId |-> user, data |-> processFlightData(doc, [flightName |-> name])]

\* the flights collection after one upload of each user
StoredFlights ==
    {StoredFlight(1, "u1", "Survey", SurveyDocument),
     StoredFlight(2, "u2", "Harbor", SurveyDocument)}

NoBody == [kind |-> "none"]

Reply(code, content) == [status |-> code, body |-> content]

\* authenticateToken: 0 when next() is called, else the status of the answer
authenticateToken(token) ==
    IF token = "none" THEN 401
    ELSE IF token \notin UserIds THEN 403
    ELSE 0

AuthFailure(token) ==
    Reply(authenticateToken(token),
          [kind |-> "error",
           message |-> IF token = "none" THEN "Access token required"
                       ELSE "Invalid or expired token"])

HttpRequest(method, path, token, id, body) ==
    [kind |-> "http", method |-> method, path |-> path, token |-> token, id |-> id,
     body |-> body]

MaxMockUsers == 4
MaxMockFlights == 4

RECURSIVE MaxUserId(_)
MaxUserId(users) ==
    IF users = <<>> THEN 0
    ELSE LET rest == MaxUserId(Tail(users))
         IN  IF Head(users).id > rest THEN Head(users).id ELSE rest

\* Math.max(...mockUsers.map(u => u.id)) + 1, or 1 for the empty collection
nextMockUserId == IF Len(mockUsers) # 0 THEN MaxUserId(mockUsers) + 1 ELSE 1

MockPrefixes == {"/api/mock", "/api/admin"}

\* the tokens sent to the mock endpoints
MockTokens == {"none", "u1"}

InitApi ==
    /\ EngineIdle
    /\ FlightData = StoredFlights
    /\ AnalysisReport = {}
    /\ mockUsers = InitialMockUsers
    /\ mockFlights = InitialMockFlights
    /\ uploads = {}
    /\ User = {}
    /\ registrations = <<>>
    /\ req = [kind |-> "none"]
    /\ pc = "idle"
    /\ response = NoResponse
    /\ analyses = <<>>
    /\ emitted = <<>>

\* GET /api/health
Health ==
    /\ \E token \in MockTokens : req' = HttpRequest("GET", "/api/health", token, Missing, NoBody)
    /\ response' = Reply(200, [kind |-> "message", message |-> "API running"])
    /\ UNCHANGED <<FlightData, AnalysisReport, mockUsers, mockFlights, uploads, User, registrations, pc,
                   analyses, emitted>>
    /\ UNCHANGED <<positions, sequence, values, x, y, dataPoints, comparisons, flights, result>>

\* GET /api/student
Student ==
    /\ \E token \in MockTokens : req' = HttpRequest("GET", "/api/student", token, Missing, NoBody)
    /\ response' = Reply(200, [kind |-> "message", message |-> "Disen Jia"])
    /\ UNCHANGED <<FlightData, AnalysisReport, mockUsers, mockFlights, uploads, User, registrations, pc,
                   analyses, emitted>>
    /\ UNCHANGED <<positions, sequence, values, x, y, dataPoints, comparisons, flights, result>>

\* GET prefix/users without q
MockListUsers ==
    /\ \E prefix \in MockPrefixes, token \in MockTokens :
        req' = HttpRequest("GET", prefix \o "/users", token, Missing, NoBody)
    /\ response' = Reply(200, [kind |-> "users", items |-> mockUsers])
    /\ UNCHANGED <<FlightData, AnalysisReport, mockUsers, mockFlights, uploads, User, registrations, pc,
                   analyses, emitted>>
    /\ UNCHANGED <<positions, sequence, values, x, y, dataPoints, comparisons, flights, result>>

UserBodies ==
    {[name |-> "Dan Ortiz", email |-> "dan@example.com", role |-> Missing, status |-> Missing],
     [name |-> "Dan Ortiz", email |-> Missing, role |-> "admin", status |-> Missing]}

\* POST prefix/users
MockCreateUser ==
    \E prefix \in MockPrefixes, token \in MockTokens, body \in UserBodies :
        /\ Len(mockUsers) < MaxMockUsers
        /\ req' = HttpRequest("POST", prefix \o "/users", token, Missing, body)
        /\ IF body.name \in {Missing, ""} \/ body.email \in {Missing, ""}
           THEN /\ response' = Reply(400, [kind |-> "error",
                                           message |-> "name and email are required"])
                /\ UNCHANGED mockUsers
           ELSE LET user == [id |-> nextMockUserId, name |-> body.name, email |-> body.email,
                             role |-> IF body.role = Missing THEN "viewer" ELSE body.role,
                             status |-> IF body.status = Missing THEN "active"
                                        ELSE body.status]
                IN  /\ mockUsers' = Append(mockUsers, user)
                    /\ response' = Reply(201, [kind |-> "user", item |-> user])
        /\ UNCHANGED <<FlightData, AnalysisReport, mockFlights, uploads, User, registrations, pc, analyses, emitted>>
        /\ UNCHANGED <<positions, sequence, values, x, y, dataPoints, comparisons, flights,
                       result>>

\* the fields of body that are not undefined, written over item
Patched(item, body, fields) ==
    [f \in DOMAIN item |-> IF f \in fields /\ body[f] # Missing THEN body[f] ELSE item[f]]

MockUserIds == {3, 9}

UserPatches ==
    {[name |-> Missing, email |-> Missing, role |-> Missing, status |-> "suspended"]}

\* PATCH prefix/users/:id
MockUpdateUser ==
    \E prefix \in MockPrefixes, token \in MockTokens, id \in {1, 9}, body \in UserPatches :
        /\ req' = HttpRequest("PATCH", prefix \o "/users/:id", token, id, body)
        /\ IF \A i \in 1..Len(mockUsers) : mockUsers[i].id # id
           THEN /\ response' = Reply(404, [kind |-> "error", message |-> "user not found"])
                /\ UNCHANGED mockUsers
           ELSE LET i == CHOOSE j \in 1..Len(mockUsers) :
                            /\ mockUsers[j].id = id
                            /\ \A k \in 1..(j - 1) : mockUsers[k].id # id
                    user == Patched(mockUsers[i], body, {"name", "email", "role", "status"})
                IN  /\ mockUsers' = [mockUsers EXCEPT ![i] = user]
                    /\ response' = Reply(200, [kind |-> "user", item |-> user])
        /\ UNCHANGED <<FlightData, AnalysisReport, mockFlights, uploads, User, registrations, pc, analyses, emitted>>
        /\ UNCHANGED <<positions, sequence, values, x, y, dataPoints, comparisons, flights,
                       result>>

\* DELETE prefix/users/:id
MockDeleteUser ==
    \E prefix \in MockPrefixes, token \in MockTokens, id \in MockUserIds :
        LET kept == SelectSeq(mockUsers, LAMBDA u : u.id # id)
        IN  /\ req' = HttpRequest("DELETE", prefix \o "/users/:id", token, id, NoBody)
            /\ mockUsers' = kept
            /\ response' = IF Len(kept) = Len(mockUsers)
                           THEN Reply(404, [kind |-> "error", message |-> "user not found"])
                           ELSE Reply(200, [kind |-> "ok"])
            /\ UNCHANGED <<FlightData, AnalysisReport, mockFlights, uploads, User, registrations, pc, analyses,
                           emitted>>
            /\ UNCHANGED <<positions, sequence, values, x, y, dataPoints, comparisons, flights,
                           result>>

\* GET prefix/flights with or without the status filter, without q
MockListFlights ==
    /\ \E prefix \in MockPrefixes, token \in MockTokens, status \in {Missing, "pending"} :
        /\ req' = HttpRequest("GET", prefix \o "/flights", token, Missing,
                              [kind |-> "query", status |-> status])
        /\ response' = Reply(200,
                [kind |-> "flights",
                 items |-> IF status \in {Missing, ""} THEN mockFlights
                           ELSE SelectSeq(mockFlights, LAMBDA f : f.status = status)])
    /\ UNCHANGED <<FlightData, AnalysisReport, mockUsers, mockFlights, uploads, User, registrations, pc,
                   analyses, emitted>>
    /\ UNCHANGED <<positions, sequence, values, x, y, dataPoints, comparisons, flights, result>>

\* the id ["F-005"] of a JSON body, written as its JSON text: express.json()
\* parses it into a new array for every request
ArrayFlightId == "[\"F-005\"]"

\* f.id === id for the id of a request body: strings are compared by value,
\* an array is identical to no array that was parsed before
IdStrictEq(stored, id) == stored = id /\ id # ArrayFlightId

FlightBodies ==
    {[id |-> "F-004", name |-> "Dock Loop", date |-> "2025-01-18", status |-> Missing],
     [id |-> "F-001", name |-> "Harbor Again", date |-> "2025-01-18", status |-> "processed"],
     [id |-> ArrayFlightId, name |-> "Pier Run", date |-> "2025-01-19", status |-> Missing],
     [id |-> Missing, name |-> Missing, date |-> Missing, status |-> "processed"]}

\* POST prefix/flights with a date
MockCreateFlight ==
    \E prefix \in MockPrefixes, token \in MockTokens, body \in FlightBodies :
        /\ Len(mockFlights) < MaxMockFlights
        /\ req' = HttpRequest("POST", prefix \o "/flights", token, Missing, body)
        /\ IF body.id \in {Missing, ""} \/ body.name \in {Missing, ""}
           THEN /\ response' = Reply(400, [kind |-> "error",
                                           message |-> "id and name are required"])
                /\ UNCHANGED mockFlights
           ELSE IF \E i \in 1..Len(mockFlights) : IdStrictEq(mockFlights[i].id, body.id)
           THEN /\ response' = Reply(409, [kind |-> "error",
                                           message |-> "flight with this id already exists"])
                /\ UNCHANGED mockFlights
           ELSE LET flight == [id |-> body.id, name |-> body.name, date |-> body.date,
                               status |-> IF body.status = Missing THEN "pending"
                                          ELSE body.status]
                IN  /\ mockFlights' = Append(mockFlights, flight)
                    /\ response' = Reply(201, [kind |-> "flight", item |-> flight])
        /\ UNCHANGED <<FlightData, AnalysisReport, mockUsers, uploads, User, registrations, pc, analyses, emitted>>
        /\ UNCHANGED <<positions, sequence, values, x, y, dataPoints, comparisons, flights,
                       result>>

MockFlightIds == {"F-003", "F-009"}

FlightPatches ==
    {[id |-> Missing, name |-> Missing, date |-> Missing, status |-> "processed"]}

\* PATCH prefix/flights/:id
MockUpdateFlight ==
    \E prefix \in MockPrefixes, token \in MockTokens, id \in {"F-002", "F-009"}, body \in FlightPatches :
        /\ req' = HttpRequest("PATCH", prefix \o "/flights/:id", token, id, body)
        /\ IF \A i \in 1..Len(mockFlights) : mockFlights[i].id # id
           THEN /\ response' = Reply(404, [kind |-> "error", message |-> "flight not found"])
                /\ UNCHANGED mockFlights
           ELSE LET i == CHOOSE j \in 1..Len(mockFlights) :
                            /\ mockFlights[j].id = id
                            /\ \A k \in 1..(j - 1) : mockFlights[k].id # id
                    flight == Patched(mockFlights[i], body, {"name", "date", "status"})
                IN  /\ mockFlights' = [mockFlights EXCEPT ![i] = flight]
                    /\ response' = Reply(200, [kind |-> "flight", item |-> flight])
        /\ UNCHANGED <<FlightData, AnalysisReport, mockUsers, uploads, User, registrations, pc, analyses, emitted>>
        /\ UNCHANGED <<positions, sequence, values, x, y, dataPoints, comparisons, flights,
                       result>>

\* DELETE prefix/flights/:id
MockDeleteFlight ==
    \E prefix \in MockPrefixes, token \in MockTokens, id \in MockFlightIds :
        LET kept == SelectSeq(mockFlights, LAMBDA f : f.id # id)
        IN  /\ req' = HttpRequest("DELETE", prefix \o "/flights/:id", token, id, NoBody)
            /\ mockFlights' = kept
            /\ response' = IF Len(kept) = Len(mockFlights)
                           THEN Reply(404, [kind |-> "error", message |-> "flight not found"])
                           ELSE Reply(200, [kind |-> "ok"])
            /\ UNCHANGED <<FlightData, AnalysisReport, mockUsers, uploads, User, registrations, pc, analyses,
                           emitted>>
            /\ UNCHANGED <<positions, sequence, values, x, y, dataPoints, comparisons, flights,
                           result>>

\* FlightData.findOne({ _id: flightId, userId })
FindFlights(flightId, userId) ==
    {f \in FlightData : f._id = flightId /\ f.userId = userId}

FlightIds == {1, 9}

\* GET /api/flights/:flightId: authenticateToken, then getFlightDetails
GetFlightDetails ==
    /\ \E token \in Tokens, flightId \in FlightIds :
        /\ req' = HttpRequest("GET", "/api/flights/:flightId", token, flightId, NoBody)
        /\ response' =
            IF authenticateToken(token) # 0 THEN AuthFailure(token)
            ELSE IF FindFlights(flightId, token) = {}
            THEN Reply(404, [kind |-> "error", message |-> "Flight data not found"])
            ELSE LET flight == CHOOSE f \in FindFlights(flightId, token) : TRUE
                 IN  Reply(200, [kind |-> "flight", id |-> flight._id,
                                 flightName |-> flight.data.flightName,
                                 analysis |-> flight.data.analysis])
    /\ UNCHANGED <<FlightData, AnalysisReport, mockUsers, mockFlights, uploads, User, registrations, pc,
                   analyses, emitted>>
    /\ UNCHANGED <<positions, sequence, values, x, y, dataPoints, comparisons, flights, result>>

\* PUT /api/flights/:flightId: authenticateToken, then updateFlight
UpdateFlight ==
    /\ \E token \in Tokens, flightId \in FlightIds, flightName \in {Missing, "Renamed"} :
        /\ req' = HttpRequest("PUT", "/api/flights/:flightId", token, flightId,
                              [flightName |-> flightName])
        /\ IF authenticateToken(token) # 0
           THEN /\ response' = AuthFailure(token)
                /\ UNCHANGED FlightData
           ELSE IF flightName \in {Missing, ""}
           THEN /\ response' = Reply(400, [kind |-> "error",
                                           message |-> "flightName is required"])
                /\ UNCHANGED FlightData
           ELSE IF FindFlights(flightId, token) = {}
           THEN /\ response' = Reply(404, [kind |-> "error",
                                           message |-> "Flight not found or not authorized"])
                /\ UNCHANGED FlightData
           ELSE LET flight == CHOOSE f \in FindFlights(flightId, token) : TRUE
                    updated == [flight EXCEPT !.data.flightName = flightName]
                IN  /\ FlightData' = (FlightData \ {flight}) \cup {updated}
                    /\ response' = Reply(200, [kind |-> "flight", id |-> updated._id,
                                               flightName |-> updated.data.flightName,
                                               analysis |-> Missing])
    /\ UNCHANGED <<AnalysisReport, mockUsers, mockFlights, uploads, User, registrations, pc, analyses, emitted>>
    /\ UNCHANGED <<positions, sequence, values, x, y, dataPoints, comparisons, flights, result>>

\* DELETE /api/flights/:flightId: authenticateToken, then deleteFlight
DeleteFlight ==
    /\ \E token \in Tokens, flightId \in FlightIds :
        /\ req' = HttpRequest("DELETE", "/api/flights/:flightId", token, flightId, NoBody)
        /\ IF authenticateToken(token) # 0
           THEN /\ response' = AuthFailure(token)
                /\ UNCHANGED FlightData
           ELSE IF FindFlights(flightId, token) = {}
           THEN /\ response' = Reply(404, [kind |-> "error",
                                           message |-> "Flight data not found"])
                /\ UNCHANGED FlightData
           ELSE /\ FlightData' = FlightData \ FindFlights(flightId, token)
                /\ response' = Reply(200, [kind |-> "message",
                                           message |-> "Flight data deleted successfully"])
    /\ UNCHANGED <<AnalysisReport, mockUsers, mockFlights, uploads, User, registrations, pc, analyses, emitted>>
    /\ UNCHANGED <<positions, sequence, values, x, y, dataPoints, comparisons, flights, result>>

NextApi ==
    \/ Health
    \/ Student
    \/ MockListUsers
    \/ MockCreateUser
    \/ MockUpdateUser
    \/ MockDeleteUser
    \/ MockListFlights
    \/ MockCreateFlight
    \/ MockUpdateFlight
    \/ MockDeleteFlight
    \/ GetFlightDetails
    \/ UpdateFlight
    \/ DeleteFlight

SpecApi == InitApi /\ [][NextApi]_vars


\* the request carries no token that jwt.verify accepts
Unauthenticated(request) == request.kind = "http" /\ request.token \notin UserIds

\* C18: a request under /api/ without a valid token is answered 401 or 403,
\* and handling it leaves the flights, the reports and the user and flight
\* collections of /api/admin and /api/mock as they were.
C18_AuthRequired ==
    [][Unauthenticated(req') =>
            /\ response'.status \in {401, 403}
            /\ UNCHANGED <<FlightData, AnalysisReport, mockUsers, mockFlights>>]_vars


(***************************************************************************)
(* server.js: the socket.io 'startAnalysis' handler.  Each event starts    *)
(* its own closure with the variables progress and interval; analyses[i]   *)
(* is the closure of the i-th event and emitted[i] the events emitted for  *)
(* it.  The connection is accepted without any check, so the client of an  *)
(* event is anonymous or a user who logged in over HTTP.                   *)
(***************************************************************************)
MaxAnalyses == 2
MaxRegistrations == 2
\* the flights a user has stored, and the largest page and limit of a query
MaxStoredFlights == 5
MaxPageQuery == 3
MaxLimitQuery == 3
\* the samples of a list with sequence indices, and the largest index
MaxIndexedSamples == 3
MaxSequenceIndex == 10
\* average errors of the quality score run from 0 to this many tenths of a millimetre
MaxErrorSteps == 1100

SocketClients == {"anonymous", "u2"}

AnalysisFlightIds == {1, 2, 9}

\* the argument of the event: { flightId, userId }, or nothing
AnalysisPayloads ==
    {[defined |-> FALSE, flightId |-> 0, userId |-> Missing]} \cup
    {[defined |-> TRUE, flightId |-> flightId, userId |-> userId] :
        flightId \in AnalysisFlightIds, userId \in UserIds}

RECURSIVE SimpleTotalDistance(_)
SimpleTotalDistance(pos) ==
    IF Len(pos) < 2 THEN Zero
    ELSE LET prev == pos[Len(pos) - 1]
             curr == pos[Len(pos)]
         IN  Add(SimpleTotalDistance(SubSeq(pos, 1, Len(pos) - 1)),
                 Distance(prev.x, prev.y, prev.z, curr.x, curr.y, curr.z))

generateSimpleAnalysisResult(flightData) ==
    LET analysis == flightData.analysis
        pos == flightData.positionData
        duration == IF Len(pos) > 0 THEN Sub(pos[Len(pos)].time, pos[1].time) ELSE Zero
        avgSpeed == IF Gt(duration, Zero) THEN Div(SimpleTotalDistance(pos), duration)
                    ELSE Zero
        maxSpeed == Mul(avgSpeed, Rat(3, 2))
    IN  [avgSpeed |-> ParseFloat(Text(ToFixed(avgSpeed, 2), "")),
         maxSpeed |-> ParseFloat(Text(ToFixed(maxSpeed, 2), "")),
         duration |-> MathRound(duration),
         errorRate |-> ParseFloat(Text(ToFixed(
                            Mul(analysis.positionAccuracy.overall.average, Num(100)), 2), ""))]

ProgressEvent(progress) == [event |-> "analysisProgress", progress |-> progress]

CompleteEvent(ok, content) ==
    [event |-> "analysisComplete", success |-> ok, content |-> content]

Failure(message) == CompleteEvent(FALSE, [message |-> message])

InitSocket ==
    /\ EngineIdle
    /\ FlightData = StoredFlights
    /\ AnalysisReport = {}
    /\ mockUsers = InitialMockUsers
    /\ mockFlights = InitialMockFlights
    /\ uploads = {}
    /\ User = {}
    /\ registrations = <<>>
    /\ req = [kind |-> "none"]
    /\ pc = "idle"
    /\ response = NoResponse
    /\ analyses = <<>>
    /\ emitted = <<>>

\* socket.on('startAnalysis', async ({ flightId, userId }) => ...): with no
\* argument the destructuring raises and the handler ends; otherwise
\* progress = 0 and setInterval(..., 500)
StartAnalysis ==
    /\ Len(analyses) < MaxAnalyses
    /\ \E client \in SocketClients, payload \in AnalysisPayloads :
        analyses' = Append(analyses,
            [client |-> client, payload |-> payload, progress |-> 0,
             interval |-> IF payload.defined THEN "set" ELSE "none",
             step |-> IF payload.defined THEN "timer" ELSE "rejected",
             result |-> NoBody])
    /\ emitted' = Append(emitted, <<>>)
    /\ UNCHANGED <<FlightData, AnalysisReport, mockUsers, mockFlights, uploads, User, registrations, req, pc,
                   response>>
    /\ UNCHANGED <<positions, sequence, values, x, y, dataPoints, comparisons, flights, result>>

\* the interval callback: progress += 10, then emit 'analysisProgress' or
\* clearInterval(interval) and call FlightData.findOne
Tick(i) ==
    /\ i \in 1..Len(analyses)
    /\ analyses[i].interval = "set"
    /\ LET progress == analyses[i].progress + 10
       IN  IF progress < 100
           THEN /\ analyses' = [analyses EXCEPT ![i].progress = progress]
                /\ emitted' = [emitted EXCEPT ![i] = Append(@, ProgressEvent(progress))]
           ELSE /\ analyses' = [analyses EXCEPT ![i].progress = progress,
                                                ![i].interval = "cleared",
                                                ![i].step = "find"]
                /\ UNCHANGED emitted
    /\ UNCHANGED <<FlightData, AnalysisReport, mockUsers, mockFlights, uploads, User, registrations, req, pc,
                   response>>
    /\ UNCHANGED <<positions, sequence, values, x, y, dataPoints, comparisons, flights, result>>

\* await FlightData.findOne({ _id: flightId, userId: userId }) returns: the
\* query raised, or no flight was found, or the result of the analysis is
\* built and report.save() is called
FindFlight(i) ==
    /\ i \in 1..Len(analyses)
    /\ analyses[i].step = "find"
    /\ LET payload == analyses[i].payload
           found == FindFlights(payload.flightId, payload.userId)
       IN  \/ /\ analyses' = [analyses EXCEPT ![i].step = "done"]
              /\ emitted' = [emitted EXCEPT ![i] = Append(@, Failure("query failed"))]
           \/ /\ found = {}
              /\ analyses' = [analyses EXCEPT ![i].step = "done"]
              /\ emitted' = [emitted EXCEPT ![i] = Append(@, Failure("Flight data not found"))]
           \/ /\ found # {}
              /\ LET flightData == CHOOSE f \in found : TRUE
                     analysisResult == generateSimpleAnalysisResult(flightData.data)
                 IN  analyses' = [analyses EXCEPT
                        ![i].step = "save",
                        ![i].result = [flightId |-> payload.flightId,
                                       userId |-> payload.userId,
                                       flightName |-> flightData.data.flightName,
                                       avgSpeed |-> analysisResult.avgSpeed,
                                       maxSpeed |-> analysisResult.maxSpeed,
                                       duration |-> analysisResult.duration,
                                       errorRate |-> analysisResult.errorRate]]
              /\ UNCHANGED emitted
    /\ UNCHANGED <<FlightData, AnalysisReport, mockUsers, mockFlights, uploads, User, registrations, req, pc,
                   response>>
    /\ UNCHANGED <<positions, sequence, values, x, y, dataPoints, comparisons, flights, result>>

\* report.save() leaving the report in the collection also when it raises
SaveReportStoresOnFailure(i) ==
    /\ i \in 1..Len(analyses)
    /\ analyses[i].step = "save"
    /\ analyses' = [analyses EXCEPT ![i].step = "done"]
    /\ LET saved == [report |-> analyses[i].result,
                     _id |-> Cardinality(AnalysisReport) + 1]
       IN  /\ AnalysisReport' = AnalysisReport \cup {saved}
           /\ \/ emitted' = [emitted EXCEPT ![i] = Append(@, CompleteEvent(TRUE, saved))]
              \/ emitted' = [emitted EXCEPT ![i] = Append(@, Failure("save failed"))]
    /\ UNCHANGED <<FlightData, mockUsers, mockFlights, uploads, User, registrations, req, pc, response>>
    /\ UNCHANGED <<positions, sequence, values, x, y, dataPoints, comparisons, flights, result>>

\* await report.save() returns: the report is stored and sent with
\* 'analysisComplete', or the save raised
SaveReport(i) ==
    /\ i \in 1..Len(analyses)
    /\ analyses[i].step = "save"
    /\ analyses' = [analyses EXCEPT ![i].step = "done"]
    /\ \/ LET saved == [report |-> analyses[i].result,
                         _id |-> Cardinality(AnalysisReport) + 1]
          IN  /\ AnalysisReport' = AnalysisReport \cup {saved}
              /\ emitted' = [emitted EXCEPT ![i] = Append(@, CompleteEvent(TRUE, saved))]
       \/ /\ UNCHANGED AnalysisReport
          /\ emitted' = [emitted EXCEPT ![i] = Append(@, Failure("save failed"))]
    /\ UNCHANGED <<FlightData, mockUsers, mockFlights, uploads, User, registrations, req, pc, response>>
    /\ UNCHANGED <<positions, sequence, values, x, y, dataPoints, comparisons, flights, result>>

NextSocket ==
    \/ StartAnalysis
    \/ \E i \in 1..MaxAnalyses : Tick(i)
    \/ \E i \in 1..MaxAnalyses : FindFlight(i)
    \/ \E i \in 1..MaxAnalyses : SaveReport(i)

\* a timer that is set fires, and a database call that was made returns
SocketFairness ==
    \A i \in 1..MaxAnalyses :
        /\ WF_vars(Tick(i))
        /\ WF_vars(FindFlight(i))
        /\ WF_vars(SaveReport(i))

SpecSocket == InitSocket /\ [][NextSocket]_vars /\ SocketFairness


\* the owner of the stored flight with the given id
OwnersOf(flightId) == {f.userId : f \in {g \in FlightData : g._id = flightId}}

\* C19: a client is sent a report derived from a flight only if it is
\* authenticated as the owner of the flight; the userId of the message is
\* not taken in place of authentication.
C19_DataIsolation ==
    \A i \in 1..Len(emitted) :
        \A j \in 1..Len(emitted[i]) :
            (emitted[i][j].event = "analysisComplete" /\ emitted[i][j].success)
                => OwnersOf(emitted[i][j].content.report.flightId) = {analyses[i].client}

\* the events 'analysisProgress' with progress 10, 20, ..., 10 * n
ProgressEvents(n) == [k \in 1..n |-> ProgressEvent(10 * k)]

\* the events of the i-th request so far: progress 10, 20, ... in order, at
\* most up to 90, then at most one 'analysisComplete' and nothing after it
EventsInOrder(i) ==
    LET events == emitted[i]
    IN  \/ Len(events) <= 9 /\ events = ProgressEvents(Len(events))
        \/ /\ Len(events) = 10
           /\ SubSeq(events, 1, 9) = ProgressEvents(9)
           /\ events[10].event = "analysisComplete"

\* the i-th request has had its nine progress events and its one completion
AnalysisCompleted(i) ==
    /\ i <= Len(emitted)
    /\ Len(emitted[i]) = 10
    /\ EventsInOrder(i)

\* C20: for every 'startAnalysis' event the progress events 10, ..., 90 are
\* emitted in order, then eventually exactly one 'analysisComplete' and no
\* event after it, and the timer is stopped once progress is 100, also with
\* several analyses running at once.
C20_AnalysisEvents ==
    /\ [](\A i \in 1..Len(analyses) :
            /\ EventsInOrder(i)
            /\ analyses[i].progress >= 100 => analyses[i].interval = "cleared")
    /\ \A i \in 1..MaxAnalyses : (i <= Len(analyses)) ~> AnalysisCompleted(i)


RECURSIVE TotalFlightCount(_)
TotalFlightCount(trends) ==
    IF trends = <<>> THEN 0
    ELSE trends[1].flightCount + TotalFlightCount(Tail(trends))

\* C22: for a flight list in creation order and a daily, weekly or monthly
\* period, every flight lies in exactly one bucket of generatePerformanceTrends
\* and the flightCount values add up to the number of flights, each bucket
\* reports the arithmetic mean of the metric over its flights, and the buckets
\* come in ascending order of time.
C22_TrendBuckets ==
    result.op = "generatePerformanceTrends" =>
        LET trends == result.value
            KeyOf(flight) == PeriodKey(flight.createdAt, result.period)
            BucketsOf(flight) == {b \in 1..Len(trends) : trends[b].period = KeyOf(flight)}
        IN  /\ \A i \in 1..Len(flights) : Cardinality(BucketsOf(flights[i])) = 1
            /\ TotalFlightCount(trends) = Len(flights)
            /\ \A b \in 1..Len(trends) :
                LET InBucket(flight) == KeyOf(flight) = trends[b].period
                    members == SelectSeq(flights, InBucket)
                IN  /\ trends[b].flightCount = Len(members)
                    /\ Len(members) > 0
                    /\ trends[b].value =
                         Div(SumOf([i \in 1..Len(members) |->
                                        MetricOf(members[i], result.metric)]),
                             Num(Len(members)))
                    /\ trends[b].date = members[1].createdAt
            /\ \A a, b \in 1..Len(trends) : a < b => trends[a].date < trends[b].date

\* trends of the error over two buckets, one of them with two flights whose
\* errors differ
C22_Witness ==
    /\ result.op = "generatePerformanceTrends"
    /\ result.metric = "accuracy"
    /\ Len(result.value) = 2
    /\ Len(flights) = 3
    /\ \E b \in 1..2 : result.value[b].flightCount = 2
    /\ \E i, j \in 1..3 :
        /\ i # j
        /\ flights[i].createdAt = flights[j].createdAt
        /\ flights[i].analysis.positionAccuracy.overall.average
             # flights[j].analysis.positionAccuracy.overall.average


(***************************************************************************)
(* Re-analysis of a stored flight (GET /:flightId/analysis and             *)
(* GET /:flightId/network-impact).                                         *)
(***************************************************************************)
\* a field of a stored sub-document: undefined when the record does not have it
StoredField(point, name, missing) ==
    IF name \in DOMAIN point THEN point[name] ELSE missing

\* position_data: flight.positionData, the samples of the stored record as
\* the engine reads them (an undefined stabilized flag is falsy)
StoredPositionData(flight) ==
    [i \in 1..Len(flight.positionData) |->
        LET point == flight.positionData[i]
        IN  [x |-> point.x, y |-> point.y, z |-> point.z, time |-> point.time,
             error |-> point.error,
             error_xy |-> Undefined, error_z |-> Undefined,
             phase |-> point.phase,
             stabilized |-> StoredField(point, "stabilized", FALSE),
             networkQuality |-> StoredField(point, "networkQuality", Undefined),
             sequence_index |-> Undefined]]

\* the number of samples in each network-quality bucket of analyzeNetworkImpact
BucketCounts(networkImpact) ==
    [b \in DOMAIN networkImpact.segmentAnalysis |-> networkImpact.segmentAnalysis[b].count]

\* C23: for every valid upload the stabilization ratio, the stabilization
\* rate of each phase and the network-quality buckets computed from the
\* stored record equal those computed from the uploaded samples.
C23_ReanalysisAgrees ==
    \A flight \in FlightData :
        EverySampleComplete(req.content) =>
            LET uploaded == PointFields(req.content)
                stored == StoredPositionData(flight.data)
            IN  /\ calculateStabilityMetrics(stored).stabilizationRatio
                     = calculateStabilityMetrics(uploaded).stabilizationRatio
                /\ analyzePhases(stored).waypoint.stabilizationRate
                     = analyzePhases(uploaded).waypoint.stabilizationRate
                /\ analyzePhases(stored).transit.stabilizationRate
                     = analyzePhases(uploaded).transit.stabilizationRate
                /\ BucketCounts(analyzeNetworkImpact(stored))
                     = BucketCounts(analyzeNetworkImpact(uploaded))


\* the mean of the average positioning errors of a non-empty list of flights
MeanError(fls) ==
    Div(SumOf([i \in 1..Len(fls) |-> fls[i].analysis.positionAccuracy.overall.average]),
        Num(Len(fls)))

\* the insight of GET /patterns implies that the newer half of the flights
\* has a lower mean error than the older half
PatternsImproving ==
    (/\ result.op = "GET /patterns"
     /\ \E i \in 1..Len(result.value.insights) :
            result.value.insights[i] = "Flight accuracy is improving over time")
        => LET half == Len(result.flights) \div 2
           IN  Lt(MeanError(SubSeq(result.flights, 1, half)),
                  MeanError(SubSeq(result.flights, half + 1, Len(result.flights))))

\* trend "improving" of GET /performance-trends for the metric accuracy
\* implies that the last period has a lower mean error than the first
TrendSummaryImproving ==
    (/\ result.op = "GET /performance-trends"
     /\ result.metric = "accuracy"
     /\ Len(result.value.trends) >= 2
     /\ result.value.summary.trend = "improving")
        => Lt(result.value.trends[Len(result.value.trends)].value,
              result.value.trends[1].value)

\* C24: the accuracy trend is labelled improving only when the error went
\* down, in the insight of GET /patterns and in the trend summary of
\* GET /performance-trends for the metric accuracy.
C24_ImprovingMeansLowerError == PatternsImproving /\ TrendSummaryImproving


(***************************************************************************)
(* The quality assessment of a flight.                                     *)
(***************************************************************************)
\* flights whose average error is a multiple of 0.0001 m
InitQuality ==
    /\ \E steps \in 0..MaxErrorSteps :
        flights = <<Flight(1, 20222, Rat(steps, 10000), Num(4))>>
    /\ positions = <<>>
    /\ sequence = NoSequence
    /\ values = <<>>
    /\ x = <<>>
    /\ y = <<>>
    /\ dataPoints = <<>>
    /\ comparisons = <<>>
    /\ result = NoResult
    /\ WebIdle

CalculateSimpleQualityScore ==
    /\ result.op = "none"
    /\ result' = Returned("calculateSimpleQualityScore",
                          calculateSimpleQualityScore(flights[1].analysis))
    /\ UNCHANGED <<positions, sequence, values, x, y, dataPoints, comparisons, flights, webVars>>

NextQuality == CalculateSimpleQualityScore

SpecQuality == InitQuality /\ [][NextQuality]_vars

\* C25: for every average error >= 0 the overallScore of
\* calculateSimpleQualityScore lies in [0, 100] and the grade is the one the
\* overallScore falls into: A from 90, B from 80, C from 70, D from 60, F below.
C25_GradeAgreesWithScore ==
    result.op = "calculateSimpleQualityScore" =>
        LET score == result.value.overallScore
            grade == result.value.grade
        IN  /\ Ge(score, Zero) /\ Le(score, Num(100))
            /\ grade = "A" <=> Ge(score, Num(90))
            /\ grade = "B" <=> (Ge(score, Num(80)) /\ Lt(score, Num(90)))
            /\ grade = "C" <=> (Ge(score, Num(70)) /\ Lt(score, Num(80)))
            /\ grade = "D" <=> (Ge(score, Num(60)) /\ Lt(score, Num(70)))
            /\ grade = "F" <=> Lt(score, Num(60))


\* the 'analysisComplete' events sent so far, as <<request, position>>
Completions(ok) ==
    {ij \in UNION {{<<i, j>> : j \in 1..Len(emitted[i])} : i \in 1..Len(emitted)} :
        /\ emitted[ij[1]][ij[2]].event = "analysisComplete"
        /\ emitted[ij[1]][ij[2]].success = ok}

\* C26: 'analysisComplete' with success:true carries a report that is in the
\* collection and is for the flight and user of the request, whose flight
\* exists; every stored report belongs to one such event, so a request whose
\* flight is not found or whose save fails stores none; and a request that
\* ended without a flight of the given user was answered success:false with
\* the message of the error.
C26_CompleteAfterSave ==
    /\ \A ij \in Completions(TRUE) :
        LET saved == emitted[ij[1]][ij[2]].content
            payload == analyses[ij[1]].payload
        IN  /\ saved \in AnalysisReport
            /\ saved.report.flightId = payload.flightId
            /\ saved.report.userId = payload.userId
            /\ FindFlights(payload.flightId, payload.userId) # {}
    /\ AnalysisReport = {emitted[ij[1]][ij[2]].content : ij \in Completions(TRUE)}
    /\ Cardinality(AnalysisReport) = Cardinality(Completions(TRUE))
    /\ \A ij \in Completions(FALSE) :
        /\ emitted[ij[1]][ij[2]].content.message
                \in {"Flight data not found", "query failed", "save failed"}
        /\ \A kl \in Completions(TRUE) : kl[1] # ij[1]
    /\ \A i \in 1..Len(analyses) :
        (/\ analyses[i].step = "done"
         /\ FindFlights(analyses[i].payload.flightId, analyses[i].payload.userId) = {})
            => /\ emitted[i] # <<>>
               /\ emitted[i][Len(emitted[i])].event = "analysisComplete"
               /\ ~emitted[i][Len(emitted[i])].success
               /\ emitted[i][Len(emitted[i])].content.message
                        \in {"Flight data not found", "query failed"}

\* one request was answered with its saved report, and the save of another
\* request failed
C26_Witness ==
    /\ Cardinality(Completions(TRUE)) = 1
    /\ \E ij \in Completions(FALSE) :
            emitted[ij[1]][ij[2]].content.message = "save failed"


(***************************************************************************)
(* POST /api/auth/register (AuthController.register).                      *)
(***************************************************************************)
\* req.body of a register request: username, email and password, each
\* possibly missing; the password "12345" is shorter than 6 characters
RegisterBodies ==
    {[username |-> username, email |-> email, password |-> password] :
        username \in {"ann", "bob", Missing},
        email \in {"ann@example.com", "bob@example.com", Missing},
        password \in {"secret1", "12345", Missing}}

RegisterReply(code, message) == Reply(code, [success |-> code = 201, message |-> message])

InitAuth ==
    /\ EngineIdle
    /\ WebIdle

\* the handler up to its first await: the two checks of the body, then
\* User.findOne({ $or: [{ email }, { username }] }) is called
Register ==
    /\ Len(registrations) < MaxRegistrations
    /\ \E body \in RegisterBodies :
        registrations' = Append(registrations,
            IF Missing \in {body.username, body.email, body.password}
            THEN [body |-> body, step |-> "done", user |-> 0,
                  response |-> RegisterReply(400, "Username, email, and password are required")]
            ELSE IF Len(body.password) < 6
            THEN [body |-> body, step |-> "done", user |-> 0,
                  response |-> RegisterReply(400, "Password must be at least 6 characters long")]
            ELSE [body |-> body, step |-> "find", user |-> 0, response |-> NoResponse])
    /\ UNCHANGED <<FlightData, AnalysisReport, mockUsers, mockFlights, uploads, req, pc,
                   response, analyses, emitted, User>>
    /\ UNCHANGED <<positions, sequence, values, x, y, dataPoints, comparisons, flights, result>>

\* the stored users that have the email or the username of the body
ExistingUsers(body) ==
    {u \in User : u.email = body.email \/ u.username = body.username}

\* await User.findOne(...) returns: 400 if a user was found, otherwise
\* new User(...) and user.save() is called
FindExistingUser(i) ==
    /\ i \in 1..Len(registrations)
    /\ registrations[i].step = "find"
    /\ registrations' =
        IF ExistingUsers(registrations[i].body) # {}
        THEN [registrations EXCEPT
                ![i].step = "done",
                ![i].response = RegisterReply(400, "Username or email already exists")]
        ELSE [registrations EXCEPT ![i].step = "save"]
    /\ UNCHANGED <<FlightData, AnalysisReport, mockUsers, mockFlights, uploads, req, pc,
                   response, analyses, emitted, User>>
    /\ UNCHANGED <<positions, sequence, values, x, y, dataPoints, comparisons, flights, result>>

\* await user.save() returns: the user is stored and the answer is 201; when
\* another user with the username or email has been stored in the meantime,
\* the save either stores the user all the same (a collection without unique
\* indexes) or raises a duplicate key error, which the catch answers with 500
SaveUser(i) ==
    /\ i \in 1..Len(registrations)
    /\ registrations[i].step = "save"
    /\ LET body == registrations[i].body
           id == Cardinality(User) + 1
       IN  \/ /\ User' = User \cup
                    {[_id |-> id, username |-> body.username, email |-> body.email]}
              /\ registrations' = [registrations EXCEPT
                    ![i].step = "done",
                    ![i].user = id,
                    ![i].response = RegisterReply(201, "Registration successful")]
           \/ /\ ExistingUsers(body) # {}
              /\ UNCHANGED User
              /\ registrations' = [registrations EXCEPT
                    ![i].step = "done",
                    ![i].response =
                        RegisterReply(500, "Registration failed: E11000 duplicate key error")]
    /\ UNCHANGED <<FlightData, AnalysisReport, mockUsers, mockFlights, uploads, req, pc,
                   response, analyses, emitted>>
    /\ UNCHANGED <<positions, sequence, values, x, y, dataPoints, comparisons, flights, result>>

NextAuth ==
    \/ Register
    \/ \E i \in 1..MaxRegistrations : FindExistingUser(i)
    \/ \E i \in 1..MaxRegistrations : SaveUser(i)

SpecAuth == InitAuth /\ [][NextAuth]_vars

\* the body of a register request has its three fields and a password of 6
\* characters or more
ValidRegistration(body) ==
    /\ Missing \notin {body.username, body.email, body.password}
    /\ Len(body.password) >= 6

\* no two stored users share a username or an email
UsersAreUnique ==
    \A u, v \in User : u # v => (u.username # v.username /\ u.email # v.email)

\* C27: after any interleaving of register requests no two stored users share
\* a username or an email; an answered request with a missing field or a
\* short password got 400 and created no user; every other answered request
\* either created its user, or its username or email was taken and it got
\* 400 'Username or email already exists' and created no user.
C27_UniqueUsers ==
    /\ UsersAreUnique
    /\ \A i \in 1..Len(registrations) :
        LET r == registrations[i]
        IN  r.step = "done" =>
                IF ~ValidRegistration(r.body)
                THEN r.response.status = 400 /\ r.user = 0
                ELSE \/ /\ r.response.status = 201
                        /\ \E u \in User :
                            /\ u._id = r.user
                            /\ u.username = r.body.username
                            /\ u.email = r.body.email
                     \/ /\ r.response.status = 400
                        /\ r.response.body.message = "Username or email already exists"
                        /\ r.user = 0
                        /\ ExistingUsers(r.body) # {}
    /\ Cardinality(User) = Cardinality({i \in 1..Len(registrations) : registrations[i].user # 0})


\* no two users of the admin collection have the same id, and no two flights
UniqueMockIds ==
    /\ \A i, j \in 1..Len(mockUsers) : i # j => mockUsers[i].id # mockUsers[j].id
    /\ \A i, j \in 1..Len(mockFlights) : i # j => mockFlights[i].id # mockFlights[j].id

\* the request handled in this step is for the users or for the flights of
\* one of the two prefixes
MockRequest(request, method, collection) ==
    /\ request.kind = "http"
    /\ request.method = method
    /\ \E prefix \in MockPrefixes :
        request.path \in {prefix \o collection, prefix \o collection \o "/:id"}

\* C28: in the admin collections no two users and no two flights have the
\* same id; a create of a flight whose id exists is answered 409, a patch or
\* delete of an id that does not exist is answered 404, and these requests
\* leave both collections as they were.
C28_MockIds ==
    /\ []UniqueMockIds
    /\ [][/\ (/\ MockRequest(req', "POST", "/flights")
              /\ \E i \in 1..Len(mockFlights) : mockFlights[i].id = req'.body.id)
                => /\ response'.status = 409
                   /\ UNCHANGED <<mockUsers, mockFlights>>
          /\ (/\ \E method \in {"PATCH", "DELETE"} : MockRequest(req', method, "/flights")
              /\ \A i \in 1..Len(mockFlights) : mockFlights[i].id # req'.id)
                => /\ response'.status = 404
                   /\ UNCHANGED <<mockUsers, mockFlights>>
          /\ (/\ \E method \in {"PATCH", "DELETE"} : MockRequest(req', method, "/users")
              /\ \A i \in 1..Len(mockUsers) : mockUsers[i].id # req'.id)
                => /\ response'.status = 404
                   /\ UNCHANGED <<mockUsers, mockFlights>>]_vars


(***************************************************************************)
(* GET /api/flights (FlightController.getFlightHistory).                   *)
(***************************************************************************)
DigitChars == <<"0", "1", "2", "3", "4", "5", "6", "7", "8", "9">>

IsDigitChar(c) == \E d \in 1..Len(DigitChars) : DigitChars[d] = c

\* the text of a non-negative integer, as a sequence of characters
NumberText(n) == [k \in 1..Len(Digits(n)) |-> DigitChars[Digits(n)[k] + 1]]

\* the digits a text starts with
RECURSIVE LeadingDigits(_)
LeadingDigits(chars) ==
    IF chars = <<>> \/ ~IsDigitChar(chars[1]) THEN <<>>
    ELSE <<chars[1]>> \o LeadingDigits(Tail(chars))

RECURSIVE DecimalValue(_)
DecimalValue(digits) ==
    IF digits = <<>> THEN 0
    ELSE DecimalValue(SubSeq(digits, 1, Len(digits) - 1)) * 10
            + ((CHOOSE d \in 1..Len(DigitChars) : DigitChars[d] = digits[Len(digits)]) - 1)

\* parseInt(text): an optional sign and the leading digits; NaN without a
\* digit (also for a parameter that is absent, the empty text here)
ParseInt(chars) ==
    LET signed == chars # <<>> /\ chars[1] \in {"-", "+"}
        digits == LeadingDigits(IF signed THEN Tail(chars) ELSE chars)
    IN  IF digits = <<>> THEN [nan |-> TRUE, value |-> 0]
        ELSE [nan |-> FALSE,
              value |-> IF signed /\ chars[1] = "-" THEN 0 - DecimalValue(digits)
                        ELSE DecimalValue(digits)]

\* parseInt(text) || otherwise
ParseIntOr(chars, otherwise) ==
    IF ParseInt(chars).nan \/ ParseInt(chars).value = 0 THEN otherwise
    ELSE ParseInt(chars).value

\* Math.ceil(total / limit) for total >= 0 and limit # 0
MathCeilDiv(total, limit) ==
    IF limit > 0 THEN (total + limit - 1) \div limit
    ELSE 0 - (total \div (0 - limit))

\* hasNext taking a full last page for one that has a successor
HasNextInclusive(page, limit, total) == page * limit <= total

\* hasNext: page * limit < total
HasNext(page, limit, total) == page * limit < total

\* the values of req.query.page
PageQueries ==
    {NumberText(n) : n \in 0..MaxPageQuery}
        \cup {<<>>, <<"a", "b", "c">>, <<"2", "x">>, <<"-", "1">>}

\* the values of req.query.limit
LimitQueries == {NumberText(n) : n \in 0..MaxLimitQuery} \cup {<<>>}

\* .sort({ createdAt: -1 }): the ids of the flights, newest first (ids are
\* given in the order of creation)
NewestIds(found) ==
    CHOOSE s \in [1..Cardinality(found) -> {f._id : f \in found}] :
        \A i, j \in 1..Cardinality(found) : i < j => s[i] > s[j]

\* up to MaxStoredFlights flights of user u1 and one flight of user u2
InitHistory ==
    /\ EngineIdle
    /\ \E n \in 0..MaxStoredFlights :
        FlightData = {StoredFlight(i, "u1", "Survey", SurveyDocument) : i \in 1..n}
                        \cup {StoredFlight(0, "u2", "Harbor", SurveyDocument)}
    /\ AnalysisReport = {}
    /\ mockUsers = InitialMockUsers
    /\ mockFlights = InitialMockFlights
    /\ uploads = {}
    /\ User = {}
    /\ registrations = <<>>
    /\ req = [kind |-> "none"]
    /\ pc = "idle"
    /\ response = NoResponse
    /\ analyses = <<>>
    /\ emitted = <<>>

\* GET /api/flights?page=..&limit=.. without the name and date filters; a
\* negative skip is refused by the database and the catch answers 500
GetFlightHistory ==
    /\ \E token \in {"none", "u1"}, pageQuery \in PageQueries, limitQuery \in LimitQueries :
        LET page == ParseIntOr(pageQuery, 1)
            limit == ParseIntOr(limitQuery, 10)
            skip == (page - 1) * limit
            found == {f \in FlightData : f.userId = token}
            total == Cardinality(found)
            newest == NewestIds(found)
            last == IF skip + limit < total THEN skip + limit ELSE total
        IN  /\ req' = HttpRequest("GET", "/api/flights", token, Missing,
                                  [page |-> pageQuery, limit |-> limitQuery])
            /\ response' =
                IF authenticateToken(token) # 0 THEN AuthFailure(token)
                ELSE IF skip < 0
                THEN Reply(500, [kind |-> "error",
                                 message |-> "Failed to get flight history: skip"])
                ELSE Reply(200,
                        [kind |-> "history",
                         flights |-> SubSeq(newest, skip + 1, last),
                         pagination |->
                            [current |-> page,
                             total |-> MathCeilDiv(total, limit),
                             hasNext |-> HasNext(page, limit, total),
                             hasPrev |-> page > 1]])
    /\ UNCHANGED <<FlightData, AnalysisReport, mockUsers, mockFlights, uploads, User,
                   registrations, pc, analyses, emitted>>
    /\ UNCHANGED <<positions, sequence, values, x, y, dataPoints, comparisons, flights, result>>

NextHistory == GetFlightHistory

SpecHistory == InitHistory /\ [][NextHistory]_vars

\* the request answered last was a flight history request that got its page
HistoryAnswered ==
    /\ req.kind = "http"
    /\ req.path = "/api/flights"
    /\ response.status = 200

\* C29: for page >= 1, limit >= 1 and total matching flights,
\* pagination.total is the least number of pages of limit flights that hold
\* total flights, hasPrev holds iff page > 1, and hasNext holds iff
\* page < pagination.total, which is iff a matching flight lies beyond the
\* first page * limit flights.
C29_Pagination ==
    HistoryAnswered =>
        LET page == response.body.pagination.current
            limit == ParseIntOr(req.body.limit, 10)
            total == Cardinality({f \in FlightData : f.userId = req.token})
            pages == response.body.pagination.total
        IN  (page >= 1 /\ limit >= 1) =>
                /\ pages * limit >= total
                /\ (pages - 1) * limit < total
                /\ pages >= 0
                /\ response.body.pagination.hasPrev <=> page > 1
                /\ response.body.pagination.hasNext <=> page < pages
                /\ response.body.pagination.hasNext
                        <=> total > page * limit
                /\ response.body.pagination.hasNext
                        <=> (page - 1) * limit + Len(response.body.flights) < total

\* the second of three pages: five flights, two to a page
C29_Witness ==
    /\ HistoryAnswered
    /\ response.body.pagination.current = 2
    /\ response.body.pagination.total = 3
    /\ Len(response.body.flights) = 2
    /\ response.body.pagination.hasNext
    /\ response.body.pagination.hasPrev

\* the last page when it is full: four flights, two to a page, page 2
C29_WitnessFullLastPage ==
    /\ HistoryAnswered
    /\ response.body.pagination.current = 2
    /\ response.body.pagination.total = 2
    /\ Len(response.body.flights) = 2
    /\ ~response.body.pagination.hasNext


(***************************************************************************)
(* The sequence indices of a sample list.                                  *)
(***************************************************************************)
\* samples without a sequence_index and with one of 0, 1, 2 and the two
\* largest indices
IndexedSamples ==
    {[Sample(<<0, 0, 0>>, Rat(5, 100), "waypoint", TRUE, Num(80))
            EXCEPT !.sequence_index = index] :
        index \in {Undefined} \cup
                  {Num(i) : i \in {0, 1, 2, MaxSequenceIndex - 1, MaxSequenceIndex}}}

InitSequence ==
    /\ positions \in SeqUpTo(IndexedSamples, MaxIndexedSamples)
    /\ sequence = NoSequence
    /\ values = <<>>
    /\ x = <<>>
    /\ y = <<>>
    /\ dataPoints = <<>>
    /\ comparisons = <<>>
    /\ flights = <<>>
    /\ result = NoResult
    /\ WebIdle

ExtractSequenceInfo ==
    /\ result.op = "none"
    /\ result' = Returned("extractSequenceInfo", extractSequenceInfo(positions))
    /\ UNCHANGED <<positions, sequence, values, x, y, dataPoints, comparisons, flights, webVars>>

NextSequence == ExtractSequenceInfo

SpecSequence == InitSequence /\ [][NextSequence]_vars

\* C30: extractSequenceInfo returns every sequence_index that occurs in the
\* samples exactly once, in ascending numeric order, and nothing for samples
\* without a sequence_index.
C30_SequenceIndices ==
    result.op = "extractSequenceInfo" =>
        LET indices == result.value
            occurring == {positions[i].sequence_index :
                            i \in {j \in 1..Len(positions) : HasSequenceIndex(positions[j])}}
        IN  /\ {indices[i] : i \in 1..Len(indices)} = occurring
            /\ Len(indices) = Cardinality(occurring)
            /\ \A i, j \in 1..Len(indices) : i < j => Lt(indices[i], indices[j])

\* C30 for samples whose indices are all below 10
SequenceIndicesBelowTen ==
    (/\ result.op = "extractSequenceInfo"
     /\ \A i \in 1..Len(positions) :
            HasSequenceIndex(positions[i]) => Lt(positions[i].sequence_index, Num(10)))
        => LET indices == result.value
               occurring == {positions[i].sequence_index :
                               i \in {j \in 1..Len(positions) : HasSequenceIndex(positions[j])}}
           IN  /\ {indices[i] : i \in 1..Len(indices)} = occurring
               /\ Len(indices) = Cardinality(occurring)
               /\ \A i, j \in 1..Len(indices) : i < j => Lt(indices[i], indices[j])

=============================================================================
